---- MODULE Spec2Model ----
(***************************************************************************)
(* Salary deduction engine of the employee salary management API:          *)
(* the tax bracket table (models/salary.model), the SalaryService          *)
(* calculators (services/salary.service) and the breakdown builder.        *)
(*                                                                         *)
(* Money is an integer number of cents.  The service is stateless: a state *)
(* of the model is one call, i.e. its arguments, the function called and   *)
(* the value it returned.                                                  *)
(***************************************************************************)
EXTENDS Integers, Sequences, FiniteSets, TLC

VARIABLES grossSalaryCents, country, called, returned,
          employees, nextId, now, NODE_ENV, exchange, calls,
          dbInstance, instances, closing, result,
          server, connections, waiting, signals, elapsed, exitCode

\* the state of a call of the salary service
salaryVars == <<grossSalaryCents, country, called, returned>>

\* the state of the API: the employees table, the id the next row gets, the
\* time, the environment, the request last handled and the service calls
\* under way
storeVars == <<employees, nextId, now, NODE_ENV, exchange, calls>>

\* the state of the process: the database instance of config/database (0:
\* null), the instances made so far with the number of destroy() calls on
\* each, the closeConnection calls that await destroy(), the outcome of the
\* last call of the module; the HTTP server, its open connections, the
\* callbacks of server.close that wait for 'close', the shutdown signals
\* received, the seconds since the first one, and the exit code
processVars == <<dbInstance, instances, closing, result,
                 server, connections, waiting, signals, elapsed, exitCode>>

vars == <<salaryVars, storeVars, processVars>>

\* the process is not looked at: no instance, no server
ProcessAtRest ==
  /\ dbInstance = 0
  /\ instances = << >>
  /\ closing = 0
  /\ result = << >>
  /\ server = ""
  /\ connections = 0
  /\ waiting = 0
  /\ signals = 0
  /\ elapsed = 0
  /\ exitCode = -1

\* the salary service alone: no table, no request
StoreAtRest ==
  /\ employees = << >>
  /\ nextId = 0
  /\ now = 0
  /\ NODE_ENV = ""
  /\ exchange = << >>
  /\ calls = << >>

----------------------------------------------------------------------------
(* Bounds of the input space *)

\* gross salaries -MaxSmallGross .. MaxSmallGross are all tried
MaxSmallGross == 12

\* around every landmark amount L the values L-Radius .. L+Radius are tried
Radius == 2

\* the multiples k * GridStepCents, k in 0 .. GridSteps, are tried
GridSteps == 16

----------------------------------------------------------------------------
(* models/salary.model *)

\* maxCents: number | null, null = no upper limit
Null == -1

INSURANCE_RATE == 5

INSURANCE_CAP_CENTS == 1000000

RETIREMENT_RATE == 3

RETIREMENT_CAP_CENTS == 500000

\* A bracket's rate is a percentage that may have one decimal (CA: 20.5);
\* the model stores it in tenths of a percent, rate = rateTenths / 10.
Bracket(min, max, tenths) == [minCents |-> min, maxCents |-> max, rateTenths |-> tenths]

\* slip: the second UK bracket starts on the last cent of the first
TAX_BRACKETS_overlap ==
  ( "US" :> << Bracket(0,        1000000,  100),
               Bracket(1000001,  4000000,  120),
               Bracket(4000001,  8500000,  220),
               Bracket(8500001,  Null,     240) >> ) @@
  ( "UK" :> << Bracket(0,        1250000,  0),
               Bracket(1250000,  5000000,  200),
               Bracket(5000001,  Null,     400) >> ) @@
  ( "IN" :> << Bracket(0,         25000000,  0),
               Bracket(25000001,  50000000,  50),
               Bracket(50000001,  100000000, 200),
               Bracket(100000001, Null,      300) >> ) @@
  ( "CA" :> << Bracket(0,        4900000,  150),
               Bracket(4900001,  9800000,  205),
               Bracket(9800001,  15200000, 260),
               Bracket(15200001, Null,     290) >> ) @@
  ( "XX" :> << >> )

\* Record<CountryCode, TaxBracket[]>, a function from the keys to the lists
TAX_BRACKETS ==
  ( "US" :> << Bracket(0,        1000000,  100),
               Bracket(1000001,  4000000,  120),
               Bracket(4000001,  8500000,  220),
               Bracket(8500001,  Null,     240) >> ) @@
  ( "UK" :> << Bracket(0,        1250000,  0),
               Bracket(1250001,  5000000,  200),
               Bracket(5000001,  Null,     400) >> ) @@
  ( "IN" :> << Bracket(0,         25000000,  0),
               Bracket(25000001,  50000000,  50),
               Bracket(50000001,  100000000, 200),
               Bracket(100000001, Null,      300) >> ) @@
  ( "CA" :> << Bracket(0,        4900000,  150),
               Bracket(4900001,  9800000,  205),
               Bracket(9800001,  15200000, 260),
               Bracket(15200001, Null,     290) >> ) @@
  ( "XX" :> << >> )

\* type CountryCode = 'US' | 'UK' | 'IN' | 'CA' | 'XX'
CountryCode == {"US", "UK", "IN", "CA", "XX"}

\* the four countries the bracket table gives brackets to
SupportedCountries == {"US", "UK", "IN", "CA"}

\* a code that is no key of the table
Unrecognized == {"ZZ"}

\* TAX_BRACKETS is a plain object: `key in TAX_BRACKETS` also holds for the
\* property names it inherits from Object.prototype
InheritedKeys == {"constructor"}

\* country codes the calculators are called with
Countries == CountryCode \cup Unrecognized

\* strings hasTaxDeductions(country: string) is called with
Strings == Countries \cup InheritedKeys

\* `country in TAX_BRACKETS`
hasTaxDeductions(c) == c \in DOMAIN TAX_BRACKETS \/ c \in InheritedKeys

\* `TAX_BRACKETS[country] || []` (an empty array is truthy and is returned as is)
getTaxBrackets(c) == IF c \in DOMAIN TAX_BRACKETS THEN TAX_BRACKETS[c] ELSE << >>

----------------------------------------------------------------------------
(* services/salary.service *)

Min(a, b) == IF a <= b THEN a ELSE b

\* slip: a negative gross is not replaced by 0
Max_noClamp(a, b) == b

Max(a, b) == IF a >= b THEN a ELSE b

\* slip: Math.ceil for Math.floor
FloorPercent_ceil(amountCents, rateTenths) ==
  (amountCents \div 1000) * rateTenths
    + ((amountCents % 1000) * rateTenths + 999) \div 1000

\* Math.floor((amountCents * rate) / 100) with rate = rateTenths / 10, i.e.
\* floor(amountCents * rateTenths / 1000).  With amountCents = 1000 q + m,
\* 0 <= m < 1000, this is q * rateTenths + floor(m * rateTenths / 1000); the
\* product is split that way to stay inside the model checker's integers.
\* For the amounts of the model (below 2^31) the double arithmetic of the
\* source is exact: the product is an exact double and a non-integer
\* quotient lies at least 1/200 from an integer, far more than half an ulp.
FloorPercent(amountCents, rateTenths) ==
  (amountCents \div 1000) * rateTenths + ((amountCents % 1000) * rateTenths) \div 1000

\* `bracket.maxCents ?? Infinity` inside Math.min(remaining - min, max - min)
salaryInBracket(remainingSalaryCents, bracket) ==
  IF bracket.maxCents = Null
    THEN remainingSalaryCents - bracket.minCents
    ELSE Min(remainingSalaryCents - bracket.minCents,
             bracket.maxCents - bracket.minCents)

\* slip: remainingSalaryCents is not reduced after a bracket
RECURSIVE TaxLoop_noDecrement(_, _, _, _)
TaxLoop_noDecrement(brackets, i, remainingSalaryCents, totalTaxCents) ==
  IF i > Len(brackets) THEN totalTaxCents
  ELSE IF remainingSalaryCents <= brackets[i].minCents
    THEN TaxLoop_noDecrement(brackets, i + 1, remainingSalaryCents, totalTaxCents)
    ELSE TaxLoop_noDecrement(brackets, i + 1, remainingSalaryCents,
           totalTaxCents + FloorPercent(salaryInBracket(remainingSalaryCents, brackets[i]),
                                        brackets[i].rateTenths))

\* slip: `totalTaxCents = bracketTaxCents` for `totalTaxCents += bracketTaxCents`
RECURSIVE TaxLoop_assign(_, _, _, _)
TaxLoop_assign(brackets, i, remainingSalaryCents, totalTaxCents) ==
  IF i > Len(brackets) THEN totalTaxCents
  ELSE IF remainingSalaryCents <= brackets[i].minCents
    THEN TaxLoop_assign(brackets, i + 1, remainingSalaryCents, totalTaxCents)
    ELSE TaxLoop_assign(brackets, i + 1,
           remainingSalaryCents - salaryInBracket(remainingSalaryCents, brackets[i]),
           FloorPercent(salaryInBracket(remainingSalaryCents, brackets[i]),
                        brackets[i].rateTenths))

\* the for-loop of calculateTax from bracket i on
RECURSIVE TaxLoop(_, _, _, _)
TaxLoop(brackets, i, remainingSalaryCents, totalTaxCents) ==
  IF i > Len(brackets) THEN totalTaxCents
  ELSE IF remainingSalaryCents <= brackets[i].minCents
    THEN TaxLoop(brackets, i + 1, remainingSalaryCents, totalTaxCents)
    ELSE LET salaryInBracketCents == salaryInBracket(remainingSalaryCents, brackets[i])
             bracketTaxCents == FloorPercent(salaryInBracketCents, brackets[i].rateTenths)
         IN  TaxLoop(brackets, i + 1,
                     remainingSalaryCents - salaryInBracketCents,
                     totalTaxCents + bracketTaxCents)

calculateTax(gross, c) ==
  IF ~hasTaxDeductions(c) THEN 0
  ELSE TaxLoop(getTaxBrackets(c), 1, gross, 0)

\* slip: the insurance cap is not applied
calculateInsurance_noCap(gross, c) ==
  IF ~hasTaxDeductions(c) THEN 0
  ELSE FloorPercent(gross, INSURANCE_RATE * 10)

calculateInsurance(gross, c) ==
  IF ~hasTaxDeductions(c) THEN 0
  ELSE Min(FloorPercent(gross, INSURANCE_RATE * 10), INSURANCE_CAP_CENTS)

calculateRetirement(gross, c) ==
  IF ~hasTaxDeductions(c) THEN 0
  ELSE Min(FloorPercent(gross, RETIREMENT_RATE * 10), RETIREMENT_CAP_CENTS)

\* `effectiveSalary > 0 ? (amount / effectiveSalary) * 100 : 0`: the ratio is
\* kept exact as the fraction num/den of which the source takes 100 times the
\* double quotient; the constant 0 is the fraction 0/1.
Percentage(amountCents, effectiveSalary) ==
  IF effectiveSalary > 0 THEN [num |-> amountCents, den |-> effectiveSalary]
  ELSE [num |-> 0, den |-> 1]

Deduction(type, amountCents, effectiveSalary, description) ==
  [type |-> type, amountCents |-> amountCents,
   percentage |-> Percentage(amountCents, effectiveSalary),
   description |-> description]

\* slip: the retirement contribution is left out of the total
totalDeductions_withoutRetirement(tax, insurance, retirement) == tax + insurance

\* `tax + insurance + retirement`
totalDeductions(tax, insurance, retirement) == tax + insurance + retirement

\* `effectiveSalary - totalDeductionsCents`, not clamped
netSalary(effectiveSalary, totalDeductionsCents) == effectiveSalary - totalDeductionsCents

calculateSalaryDetails(gross, c) ==
  LET effectiveSalary == Max(0, gross)
      tax == calculateTax(effectiveSalary, c)
      insurance == calculateInsurance(effectiveSalary, c)
      retirement == calculateRetirement(effectiveSalary, c)
      totalDeductionsCents == totalDeductions(tax, insurance, retirement)
      netSalaryCents == netSalary(effectiveSalary, totalDeductionsCents)
  IN  [grossSalaryCents |-> effectiveSalary,
       deductions |->
         << Deduction("TAX", tax, effectiveSalary,
                      "Progressive income tax based on tax brackets"),
            Deduction("INSURANCE", insurance, effectiveSalary,
                      "Health insurance (5% of gross, max $10000/year)"),
            Deduction("RETIREMENT", retirement, effectiveSalary,
                      "Retirement contribution (3% of gross, max $5000/year)") >>,
       totalDeductionsCents |-> totalDeductionsCents,
       netSalaryCents |-> netSalaryCents]

----------------------------------------------------------------------------
(* Amounts beyond 2^31.
   A JavaScript number holds every integer up to Number.MAX_SAFE_INTEGER
   (2^53 - 1) exactly.  Such an amount is kept here as the sequence of its
   base-2^20 digits, least significant first and without leading zeros
   (zero is the empty sequence).  Sums and differences of integers below 2^53
   are exact in double arithmetic; a product or quotient is rounded to 53
   significant bits, ties to even, which FloorPercentWide reproduces. *)

LimbBits == 20
LimbBase == 2 ^ LimbBits

RECURSIVE BigNorm(_)
BigNorm(a) ==
  IF a = << >> THEN << >>
  ELSE IF a[Len(a)] = 0 THEN BigNorm(SubSeq(a, 1, Len(a) - 1))
  ELSE a

RECURSIVE BigOfInt(_)
BigOfInt(n) ==
  IF n = 0 THEN << >> ELSE << n % LimbBase >> \o BigOfInt(n \div LimbBase)

RECURSIVE BigToInt(_)
BigToInt(a) ==
  IF a = << >> THEN 0 ELSE a[1] + LimbBase * BigToInt(Tail(a))

RECURSIVE BigCmpFrom(_, _, _)
BigCmpFrom(a, b, i) ==
  IF i = 0 THEN 0
  ELSE IF a[i] < b[i] THEN -1
  ELSE IF a[i] > b[i] THEN 1
  ELSE BigCmpFrom(a, b, i - 1)

\* -1, 0 or 1 as a < b, a = b or a > b
BigCmp(a, b) ==
  IF Len(a) < Len(b) THEN -1
  ELSE IF Len(a) > Len(b) THEN 1
  ELSE BigCmpFrom(a, b, Len(a))

BigLess(a, b) == BigCmp(a, b) = -1
BigLeq(a, b) == BigCmp(a, b) # 1
BigMin(a, b) == IF BigLess(a, b) THEN a ELSE b

Limb(a, i) == IF i <= Len(a) THEN a[i] ELSE 0

RECURSIVE BigAddFrom(_, _, _, _)
BigAddFrom(a, b, i, carry) ==
  IF i > Len(a) /\ i > Len(b)
  THEN IF carry = 0 THEN << >> ELSE << carry >>
  ELSE LET s == Limb(a, i) + Limb(b, i) + carry
       IN  << s % LimbBase >> \o BigAddFrom(a, b, i + 1, s \div LimbBase)

BigAdd(a, b) == BigNorm(BigAddFrom(a, b, 1, 0))

RECURSIVE BigSubFrom(_, _, _, _)
BigSubFrom(a, b, i, borrow) ==
  IF i > Len(a) THEN << >>
  ELSE LET d == Limb(a, i) - Limb(b, i) - borrow
       IN  IF d < 0 THEN << d + LimbBase >> \o BigSubFrom(a, b, i + 1, 1)
           ELSE << d >> \o BigSubFrom(a, b, i + 1, 0)

\* a - b for a >= b
BigSub(a, b) == BigNorm(BigSubFrom(a, b, 1, 0))

RECURSIVE BigMulFrom(_, _, _, _)
BigMulFrom(a, m, i, carry) ==
  IF i > Len(a) THEN BigOfInt(carry)
  ELSE LET p == a[i] * m + carry
       IN  << p % LimbBase >> \o BigMulFrom(a, m, i + 1, p \div LimbBase)

\* a * m for 0 <= m < 2048
BigMul(a, m) == BigNorm(BigMulFrom(a, m, 1, 0))

RECURSIVE BigDivFrom(_, _, _, _)
BigDivFrom(a, d, i, rem) ==
  IF i = 0 THEN [quot |-> << >>, rem |-> rem]
  ELSE LET cur == rem * LimbBase + a[i]
           rest == BigDivFrom(a, d, i - 1, cur % d)
       IN  [quot |-> rest.quot \o << cur \div d >>, rem |-> rest.rem]

\* quotient and remainder of a by d, for 0 < d < 2048
BigDivMod(a, d) ==
  LET r == BigDivFrom(a, d, Len(a), 0)
  IN  [quot |-> BigNorm(r.quot), rem |-> r.rem]

BigIsOdd(a) == a # << >> /\ a[1] % 2 = 1

\* the element of a set of one element: { e(x) : x \in { v } } is e with x
\* standing for the value of v, computed once
Only(S) == CHOOSE x \in S : TRUE

\* the amount hi * 10^12 + mid * 10^6 + lo, as decimal notation groups it
Big(hi, mid, lo) ==
  LET Million(a) == Only({ BigMul(y, 1000) : y \in { BigMul(x, 1000) : x \in { a } } })
      Plus(a, n) == Only({ BigAdd(x, BigOfInt(n)) : x \in { a } })
  IN  Plus(Million(Plus(Million(BigOfInt(hi)), mid)), lo)

BigPow2(n) ==
  [i \in 1 .. (n \div LimbBits + 1) |->
     IF i = n \div LimbBits + 1 THEN 2 ^ (n % LimbBits) ELSE 0]

RECURSIVE IntBitLength(_)
IntBitLength(n) == IF n = 0 THEN 0 ELSE 1 + IntBitLength(n \div 2)

\* the number of binary digits of a: the least n with a < 2^n
BitLength(a) ==
  IF a = << >> THEN 0
  ELSE LimbBits * (Len(a) - 1) + IntBitLength(a[Len(a)])

MantissaBits == 53

\* The double nearest to halves / 2, in halves: beyond 53 bits the low bits
\* are rounded away, ties to even.
RoundToDouble(halves) ==
  LET L == BitLength(halves)
  IN  IF L <= MantissaBits THEN halves
      ELSE LET k == 2 ^ (L - MantissaBits)
               dm == BigDivMod(halves, k)
               up == \/ 2 * dm.rem > k
                     \/ 2 * dm.rem = k /\ BigIsOdd(dm.quot)
           IN  BigMul(IF up THEN BigAdd(dm.quot, << 1 >>) ELSE dm.quot, k)

\* `Math.floor((amount * rate) / 100)` in double arithmetic, the rate in
\* tenths of a percent (every rate of the tables is a multiple of 0.5).
\* The product amount * rate is rounded to a double; so is its quotient by
\* 100, which Math.floor then truncates.  With the quotient f + r/200 and
\* 2^-j the spacing of doubles at f, the rounded quotient reaches f + 1
\* exactly when (200 - r) * 2^(j+1) < 200, or = 200 and f + 1 is the even
\* neighbour.
FloorPercentWide(amount, rateTenths) ==
  LET product == RoundToDouble(BigMul(amount, rateTenths \div 5))
      dm == BigDivMod(product, 200)
      f == dm.quot
      j == MantissaBits - BitLength(f)
      gap == (200 - dm.rem) * 2 ^ (j + 1)
      up == /\ f # << >>
            /\ j <= 7
            /\ \/ gap < 200
               \/ gap = 200 /\ (j >= 1 \/ BigIsOdd(f))
  IN  IF up THEN BigAdd(f, << 1 >>) ELSE f

\* salaryInBracket on a wide remaining amount
salaryInBracketWide(remainingSalaryCents, bracket) ==
  LET aboveMin == BigSub(remainingSalaryCents, BigOfInt(bracket.minCents))
  IN  IF bracket.maxCents = Null THEN aboveMin
      ELSE BigMin(aboveMin, BigOfInt(bracket.maxCents - bracket.minCents))

\* the for-loop of calculateTax from bracket i on, on wide amounts
RECURSIVE TaxLoopWide(_, _, _, _)
TaxLoopWide(brackets, i, remainingSalaryCents, totalTaxCents) ==
  IF i > Len(brackets) THEN totalTaxCents
  ELSE IF BigLeq(remainingSalaryCents, BigOfInt(brackets[i].minCents))
    THEN TaxLoopWide(brackets, i + 1, remainingSalaryCents, totalTaxCents)
    ELSE LET salaryInBracketCents == salaryInBracketWide(remainingSalaryCents, brackets[i])
             bracketTaxCents == FloorPercentWide(salaryInBracketCents, brackets[i].rateTenths)
         IN  TaxLoopWide(brackets, i + 1,
                         BigSub(remainingSalaryCents, salaryInBracketCents),
                         BigAdd(totalTaxCents, bracketTaxCents))

calculateTaxWide(gross, c) ==
  IF ~hasTaxDeductions(c) THEN << >>
  ELSE TaxLoopWide(getTaxBrackets(c), 1, gross, << >>)

calculateInsuranceWide(gross, c) ==
  IF ~hasTaxDeductions(c) THEN << >>
  ELSE BigMin(FloorPercentWide(gross, INSURANCE_RATE * 10), BigOfInt(INSURANCE_CAP_CENTS))

\* slip: the retirement cap is not applied
calculateRetirementWide_noCap(gross, c) ==
  IF ~hasTaxDeductions(c) THEN << >>
  ELSE FloorPercentWide(gross, RETIREMENT_RATE * 10)

calculateRetirementWide(gross, c) ==
  IF ~hasTaxDeductions(c) THEN << >>
  ELSE BigMin(FloorPercentWide(gross, RETIREMENT_RATE * 10), BigOfInt(RETIREMENT_CAP_CENTS))

\* calculateSalaryDetails on a wide gross amount, which is never negative:
\* Math.max(0, gross) is gross.  The percentages are left out.
calculateSalaryDetailsWide(gross, c) ==
  LET effectiveSalary == gross
      tax == calculateTaxWide(effectiveSalary, c)
      insurance == calculateInsuranceWide(effectiveSalary, c)
      retirement == calculateRetirementWide(effectiveSalary, c)
      totalDeductionsCents == BigAdd(BigAdd(tax, insurance), retirement)
      netSalaryCents == BigSub(effectiveSalary, totalDeductionsCents)
  IN  [grossSalaryCents |-> effectiveSalary,
       deductions |->
         << [type |-> "TAX", amountCents |-> tax],
            [type |-> "INSURANCE", amountCents |-> insurance],
            [type |-> "RETIREMENT", amountCents |-> retirement] >>,
       totalDeductionsCents |-> totalDeductionsCents,
       netSalaryCents |-> netSalaryCents]

----------------------------------------------------------------------------
(* The calls *)

GridStepCents == 25000000

\* amounts at which the behaviour of the calculators changes, and the
\* amounts the unit tests and the documentation use
Landmarks ==
  { b.minCents : b \in UNION { {TAX_BRACKETS[c][i] : i \in DOMAIN TAX_BRACKETS[c]}
                               : c \in DOMAIN TAX_BRACKETS } }
  \cup { -1000, 100000, 1000300, 2000001, 5000000, 8000000, 10000000,
         12499999, 16666667, 16999999, 20000000, 30000000, 60000000,
         75000000, 199999999 }

GrossInputs ==
  (-MaxSmallGross .. MaxSmallGross)
  \cup UNION { (l - Radius) .. (l + Radius) : l \in Landmarks }
  \cup { k * GridStepCents : k \in 0 .. GridSteps }

\* The value a call returned is tagged with its type: [boolean |-> b],
\* [brackets |-> list], [number |-> cents] or [details |-> breakdown].
Nothing == [nothing |-> TRUE]

Init ==
  /\ grossSalaryCents \in GrossInputs
  /\ country \in Strings
  /\ called = "none"
  /\ returned = Nothing
  /\ StoreAtRest
  /\ ProcessAtRest

HasTaxDeductions ==
  /\ called' = "hasTaxDeductions"
  /\ returned' = [boolean |-> hasTaxDeductions(country)]
  /\ UNCHANGED <<grossSalaryCents, country, storeVars, processVars>>

GetTaxBrackets ==
  /\ country \in Countries
  /\ called' = "getTaxBrackets"
  /\ returned' = [brackets |-> getTaxBrackets(country)]
  /\ UNCHANGED <<grossSalaryCents, country, storeVars, processVars>>

CalculateTax ==
  /\ country \in Countries
  /\ called' = "calculateTax"
  /\ returned' = [number |-> calculateTax(grossSalaryCents, country)]
  /\ UNCHANGED <<grossSalaryCents, country, storeVars, processVars>>

CalculateInsurance ==
  /\ country \in Countries
  /\ called' = "calculateInsurance"
  /\ returned' = [number |-> calculateInsurance(grossSalaryCents, country)]
  /\ UNCHANGED <<grossSalaryCents, country, storeVars, processVars>>

CalculateRetirement ==
  /\ country \in Countries
  /\ called' = "calculateRetirement"
  /\ returned' = [number |-> calculateRetirement(grossSalaryCents, country)]
  /\ UNCHANGED <<grossSalaryCents, country, storeVars, processVars>>

CalculateSalaryDetails ==
  /\ country \in Countries
  /\ called' = "calculateSalaryDetails"
  /\ returned' = [details |-> calculateSalaryDetails(grossSalaryCents, country)]
  /\ UNCHANGED <<grossSalaryCents, country, storeVars, processVars>>

Next ==
  \/ HasTaxDeductions
  \/ GetTaxBrackets
  \/ CalculateTax
  \/ CalculateInsurance
  \/ CalculateRetirement
  \/ CalculateSalaryDetails

Spec == Init /\ [][Next]_vars

----------------------------------------------------------------------------
(* The calls with wide amounts: grossSalaryCents and the amounts of the
   value returned are digit sequences *)

WideRadius == 1
WideDepth == 8
MinPower == 24

\* Number.MAX_SAFE_INTEGER = 2^53 - 1
MAX_SAFE_INTEGER == BigSub(BigPow2(MantissaBits), << 1 >>)

\* the least amounts at which both caps apply, the salary bound of the
\* schema, and the powers of two up to 2^52
WideLandmarks ==
  { BigOfInt(16666667), BigOfInt(20000000), Big(0, 1000, 0), Big(0, 100000, 0),
    Big(1, 0, 0), Big(1000, 0, 0) }
  \cup { BigPow2(n) : n \in MinPower .. (MantissaBits - 1) }

WideGrossInputs ==
  { BigSub(BigAdd(l, BigOfInt(WideRadius)), BigOfInt(d))
      : l \in WideLandmarks, d \in 0 .. (2 * WideRadius) }
  \cup { BigSub(MAX_SAFE_INTEGER, BigOfInt(d)) : d \in 0 .. WideDepth }
  \cup { BigOfInt(g) : g \in { x \in GrossInputs : x >= 0 } }

WideInit ==
  /\ grossSalaryCents \in WideGrossInputs
  /\ country \in Countries
  /\ called = "none"
  /\ returned = Nothing
  /\ StoreAtRest
  /\ ProcessAtRest

CalculateTaxWide ==
  /\ called' = "calculateTax"
  /\ returned' = [number |-> calculateTaxWide(grossSalaryCents, country)]
  /\ UNCHANGED <<grossSalaryCents, country, storeVars, processVars>>

CalculateInsuranceWide ==
  /\ called' = "calculateInsurance"
  /\ returned' = [number |-> calculateInsuranceWide(grossSalaryCents, country)]
  /\ UNCHANGED <<grossSalaryCents, country, storeVars, processVars>>

CalculateRetirementWide ==
  /\ called' = "calculateRetirement"
  /\ returned' = [number |-> calculateRetirementWide(grossSalaryCents, country)]
  /\ UNCHANGED <<grossSalaryCents, country, storeVars, processVars>>

CalculateSalaryDetailsWide ==
  /\ called' = "calculateSalaryDetails"
  /\ returned' = [details |-> calculateSalaryDetailsWide(grossSalaryCents, country)]
  /\ UNCHANGED <<grossSalaryCents, country, storeVars, processVars>>

WideNext ==
  \/ CalculateTaxWide
  \/ CalculateInsuranceWide
  \/ CalculateRetirementWide
  \/ CalculateSalaryDetailsWide

SpecWide == WideInit /\ [][WideNext]_vars

----------------------------------------------------------------------------
(* The employees table and repositories/employee.repository.

   table is the content of the employees table: a function from the ids of
   the rows present to the rows.  Every query of the repository is one
   statement, which the database runs atomically. *)

\* name and job title are sequences of characters
Chars(n, c) == [i \in 1 .. n |-> c]

\* `increments('id')`: ids are handed out in ascending order and never reused
FirstId == 1

\* email column: `.unique()`.  Whether the table holds email in a row other
\* than exceptId (active or soft-deleted).
\* slip: the column carries no unique constraint
EmailTaken_noConstraint(table, email, exceptId) == FALSE

EmailTaken(table, email, exceptId) ==
  \E i \in DOMAIN table : i # exceptId /\ table[i].email = email

rowToEmployee(id, row) ==
  [id |-> id, name |-> row.name, email |-> row.email, jobTitle |-> row.job_title,
   country |-> row.country, grossSalaryCents |-> row.gross_salary_cents,
   createdAt |-> row.created_at, updatedAt |-> row.updated_at,
   deletedAt |-> row.deleted_at]

\* the column of an employee field
Column(field) ==
  CASE field = "jobTitle" -> "job_title"
    [] field = "grossSalaryCents" -> "gross_salary_cents"
    [] field = "updatedAt" -> "updated_at"
    [] OTHER -> field

\* slip: the columns of the fields that are not defined are emptied
employeeToRow_allColumns(row, employee) ==
  [col \in DOMAIN row |->
     IF \E f \in DOMAIN employee : Column(f) = col
       THEN employee[CHOOSE f \in DOMAIN employee : Column(f) = col]
     ELSE IF col \in { "name", "email", "job_title", "country" } THEN ""
     ELSE row[col]]

\* employeeToRow: the columns of the fields that are defined, applied to row
employeeToRow(row, employee) ==
  [col \in DOMAIN row |->
     IF \E f \in DOMAIN employee : Column(f) = col
       THEN employee[CHOOSE f \in DOMAIN employee : Column(f) = col]
       ELSE row[col]]

\* the value of a query that found no row
NoRow == [none |-> TRUE]

\* `insert(row)`: the row is stored under the next id unless the unique
\* constraint on email rejects it
insert(table, id, data, time) ==
  IF EmailTaken(table, data.email, id)
    THEN [ok |-> FALSE, table |-> table]
    ELSE [ok |-> TRUE,
          table |-> [i \in DOMAIN table \cup {id} |->
                       IF i = id
                         THEN [name |-> data.name, email |-> data.email,
                               job_title |-> data.jobTitle, country |-> data.country,
                               gross_salary_cents |-> data.grossSalaryCents,
                               created_at |-> time, updated_at |-> time,
                               deleted_at |-> Null]
                         ELSE table[i]]]

\* slip: the filter on deleted_at is left out
findById_anyRow(table, id, includeDeleted) ==
  IF id \in DOMAIN table THEN rowToEmployee(id, table[id]) ELSE NoRow

findById(table, id, includeDeleted) ==
  IF id \in DOMAIN table /\ (includeDeleted \/ table[id].deleted_at = Null)
    THEN rowToEmployee(id, table[id])
    ELSE NoRow

\* `.first()`: email is unique, so at most one row matches
findByEmail(table, email, includeDeleted) ==
  LET found == { i \in DOMAIN table :
                   /\ table[i].email = email
                   /\ (includeDeleted \/ table[i].deleted_at = Null) }
  IN  IF found = {} THEN NoRow
      ELSE LET i == CHOOSE j \in found : \A k \in found : j <= k
           IN  rowToEmployee(i, table[i])

\* slip: only the active rows are looked at
emailExists_activeOnly(table, email, excludeId) ==
  \E i \in DOMAIN table :
    /\ table[i].email = email
    /\ table[i].deleted_at = Null
    /\ (excludeId # 0 => i # excludeId)

\* no filter on deleted_at; `if (excludeId)` skips the exclusion for id 0
emailExists(table, email, excludeId) ==
  \E i \in DOMAIN table :
    /\ table[i].email = email
    /\ (excludeId # 0 => i # excludeId)

\* `where({ id }).whereNull('deleted_at').update(updateRow)`: the number of
\* rows updated, or the rejection by the unique constraint
update(table, id, data, time) ==
  IF ~(id \in DOMAIN table /\ table[id].deleted_at = Null)
    THEN [ok |-> TRUE, count |-> 0, table |-> table]
  ELSE IF "email" \in DOMAIN data /\ EmailTaken(table, data.email, id)
    THEN [ok |-> FALSE, count |-> 0, table |-> table]
  ELSE [ok |-> TRUE, count |-> 1,
        table |-> [table EXCEPT
                     ![id] = [employeeToRow(@, data) EXCEPT !.updated_at = time]]]

delete(table, id, time) ==
  IF id \in DOMAIN table /\ table[id].deleted_at = Null
    THEN [count |-> 1,
          table |-> [table EXCEPT ![id].deleted_at = time, ![id].updated_at = time]]
    ELSE [count |-> 0, table |-> table]

\* slip: whereNotNull('deleted_at') is left out
restore_anyRow(table, id, time) ==
  IF id \in DOMAIN table
    THEN [count |-> 1,
          table |-> [table EXCEPT ![id].deleted_at = Null, ![id].updated_at = time]]
    ELSE [count |-> 0, table |-> table]

restore(table, id, time) ==
  IF id \in DOMAIN table /\ table[id].deleted_at # Null
    THEN [count |-> 1,
          table |-> [table EXCEPT ![id].deleted_at = Null, ![id].updated_at = time]]
    ELSE [count |-> 0, table |-> table]

\* slip: only an active row is deleted
forceDelete_activeOnly(table, id) ==
  IF id \in DOMAIN table /\ table[id].deleted_at = Null
    THEN [count |-> 1, table |-> [i \in DOMAIN table \ {id} |-> table[i]]]
    ELSE [count |-> 0, table |-> table]

forceDelete(table, id) ==
  IF id \in DOMAIN table
    THEN [count |-> 1, table |-> [i \in DOMAIN table \ {id} |-> table[i]]]
    ELSE [count |-> 0, table |-> table]

\* the rows as a set of employees (no order is asked for)
findDeleted(table) ==
  { rowToEmployee(i, table[i]) : i \in { j \in DOMAIN table : table[j].deleted_at # Null } }

\* the active rows that pass the filters: `if (country)` and `if (jobTitle)`
\* apply a filter only when it is given and not empty
Matching(table, options) ==
  { i \in DOMAIN table :
      /\ table[i].deleted_at = Null
      /\ ("country" \in DOMAIN options /\ options.country # "")
           => table[i].country = options.country
      /\ ("jobTitle" \in DOMAIN options /\ options.jobTitle # << >>)
           => table[i].job_title = options.jobTitle }

\* `orderBy('created_at', 'desc')`; rows created at the same time come in
\* the order of the table scan, by ascending id
RECURSIVE Ordered(_, _)
Ordered(table, ids) ==
  IF ids = {} THEN << >>
  ELSE LET first == CHOOSE i \in ids :
                      \A j \in ids :
                        \/ table[i].created_at > table[j].created_at
                        \/ table[i].created_at = table[j].created_at /\ i <= j
       IN  << first >> \o Ordered(table, ids \ {first})

DefaultPage == 1
DefaultLimit == 10

\* `count('* as count')`
countAll(table, options) == Cardinality(Matching(table, options))

\* slip: the offset is page * limit
selectPage_fromNextPage(table, options) ==
  LET page == IF "page" \in DOMAIN options THEN options.page ELSE DefaultPage
      limit == IF "limit" \in DOMAIN options THEN options.limit ELSE DefaultLimit
      offset == page * limit
      ordered == Ordered(table, Matching(table, options))
      ids == SubSeq(ordered, offset + 1, Min(Len(ordered), offset + limit))
  IN  [k \in DOMAIN ids |-> rowToEmployee(ids[k], table[ids[k]])]

\* `.select('*').limit(limit).offset(offset).orderBy('created_at', 'desc')`
selectPage(table, options) ==
  LET page == IF "page" \in DOMAIN options THEN options.page ELSE DefaultPage
      limit == IF "limit" \in DOMAIN options THEN options.limit ELSE DefaultLimit
      offset == (page - 1) * limit
      ordered == Ordered(table, Matching(table, options))
      ids == SubSeq(ordered, offset + 1, Min(Len(ordered), offset + limit))
  IN  [k \in DOMAIN ids |-> rowToEmployee(ids[k], table[ids[k]])]

RECURSIVE BigSum(_, _)
BigSum(table, ids) ==
  IF ids = {} THEN << >>
  ELSE LET i == CHOOSE j \in ids : TRUE
       IN  BigAdd(table[i].gross_salary_cents, BigSum(table, ids \ {i}))

\* slip: the quotient is cut off
RoundedAverage_truncated(sum, count) == BigDivMod(sum, count).quot

\* `Math.round(Number(avg))` of avg = sum / count: the quotient rounded to the
\* nearest integer, halves upwards.  (A half is an exact double and the other
\* quotients of the model lie far from one.)
RoundedAverage(sum, count) ==
  LET dm == BigDivMod(sum, count)
  IN  IF 2 * dm.rem >= count THEN BigAdd(dm.quot, << 1 >>) ELSE dm.quot

\* avg, min, max and count over the rows ids of one group
Aggregate(table, ids) ==
  [avgSalaryCents |-> RoundedAverage(BigSum(table, ids), Cardinality(ids)),
   minSalaryCents |->
     table[CHOOSE i \in ids : \A j \in ids :
             BigLeq(table[i].gross_salary_cents, table[j].gross_salary_cents)].gross_salary_cents,
   maxSalaryCents |->
     table[CHOOSE i \in ids : \A j \in ids :
             BigLeq(table[j].gross_salary_cents, table[i].gross_salary_cents)].gross_salary_cents,
   employeeCount |-> Cardinality(ids)]

\* one record per country among the active rows (of the given country only,
\* when one is given)
getSalaryMetricsByCountry(table, options) ==
  LET active == Matching(table, [c \in DOMAIN options \cap {"country"} |-> options[c]])
  IN  { [country |-> c] @@ Aggregate(table, { i \in active : table[i].country = c })
          : c \in { table[i].country : i \in active } }

getSalaryMetricsByJobTitle(table, options) ==
  LET active == Matching(table, [c \in DOMAIN options \cap {"jobTitle"} |-> options[c]])
  IN  { [jobTitle |-> t] @@ Aggregate(table, { i \in active : table[i].job_title = t })
          : t \in { table[i].job_title : i \in active } }

----------------------------------------------------------------------------
(* utils/errors *)

AppError(name, statusCode, message) ==
  [name |-> name, statusCode |-> statusCode, message |-> message, isAppError |-> TRUE]

\* slip: the message leaves the id out
NotFoundError_withoutId(resource, id) ==
  AppError("NotFoundError", 404, resource \o " not found")

NotFoundError(resource, id) ==
  AppError("NotFoundError", 404, resource \o " with id " \o ToString(id) \o " not found")

ConflictError(message) == AppError("ConflictError", 409, message)

\* an Error that is no AppError: it carries no statusCode
PlainError(message) ==
  [name |-> "Error", statusCode |-> 0, message |-> message, isAppError |-> FALSE]

\* the error with which the database driver rejects a statement that breaks
\* the unique constraint on email
UniqueConstraintError == PlainError("SQLITE_CONSTRAINT: UNIQUE constraint failed: employees.email")

----------------------------------------------------------------------------
(* services/employee.service.

   A call of a service method is a record: the method (op), its arguments
   (id, data, options, includeDeleted), the statement it is about to run
   (pc) and, once pc = "done", its outcome: [returned |-> value] or
   [thrown |-> error].  Between two awaited statements other calls may run;
   ServiceStep is what a call does from one await to the next. *)

Pending == [pending |-> TRUE]
Returned(value) == [returned |-> value]
Thrown(error) == [thrown |-> error]

NoData == [f \in {} |-> 0]

Call(op, id, data, options, includeDeleted, pc) ==
  [op |-> op, id |-> id, data |-> data, options |-> options,
   includeDeleted |-> includeDeleted, pc |-> pc, total |-> 0, byCountry |-> {},
   outcome |-> Pending]

createEmployee(data) == Call("createEmployee", 0, data, NoData, FALSE, "findByEmail")
getEmployeeById(id, includeDeleted) ==
  Call("getEmployeeById", id, NoData, NoData, includeDeleted, "findById")
getAllEmployees(options) == Call("getAllEmployees", 0, NoData, options, FALSE, "count")
updateEmployee(id, data) == Call("updateEmployee", id, data, NoData, FALSE, "findById")
deleteEmployee(id) == Call("deleteEmployee", id, NoData, NoData, FALSE, "findById")
restoreEmployee(id) == Call("restoreEmployee", id, NoData, NoData, FALSE, "restore")
forceDeleteEmployee(id) == Call("forceDeleteEmployee", id, NoData, NoData, TRUE, "findById")
getDeletedEmployees == Call("getDeletedEmployees", 0, NoData, NoData, TRUE, "findDeleted")
getEmployeeSalaryDetails(id) ==
  Call("getEmployeeSalaryDetails", id, NoData, NoData, FALSE, "findById")
getSalaryMetrics(options) ==
  Call("getSalaryMetrics", 0, NoData, options, FALSE, "byCountry")

IsDone(c) == c.pc = "done"
Return(c, value) == [c EXCEPT !.pc = "done", !.outcome = Returned(value)]
Throw(c, error) == [c EXCEPT !.pc = "done", !.outcome = Thrown(error)]
Goto(c, pc) == [c EXCEPT !.pc = pc]

\* the state after a step: the call, the table and the next id to hand out
After(c, table, next) == [call |-> c, table |-> table, nextId |-> next]

\* `Math.ceil(total / limit)`; for limit = 0 the quotient is Infinity or NaN
NotFinite == -1
totalPages(total, limit) ==
  IF limit > 0 THEN (total + limit - 1) \div limit ELSE NotFinite

\* `employee.country || 'XX'`
CountryOrDefault(c) == IF c = "" THEN "XX" ELSE c

createEmployeeStep(c, table, next, time) ==
  CASE c.pc = "findByEmail" ->
         IF findByEmail(table, c.data.email, FALSE) # NoRow
           THEN After(Throw(c, ConflictError("Employee with email " \o c.data.email
                                               \o " already exists")), table, next)
           ELSE After(Goto(c, "insert"), table, next)
    [] c.pc = "insert" ->
         LET r == insert(table, next, c.data, time)
         IN  IF r.ok THEN After([Goto(c, "findById") EXCEPT !.id = next], r.table, next + 1)
             ELSE After(Throw(c, UniqueConstraintError), table, next)
    [] c.pc = "findById" ->
         LET created == findById(table, c.id, FALSE)
         IN  IF created = NoRow
               THEN After(Throw(c, PlainError("Failed to create employee")), table, next)
               ELSE After(Return(c, [employee |-> created]), table, next)

getEmployeeByIdStep(c, table, next, time) ==
  LET employee == findById(table, c.id, c.includeDeleted)
  IN  IF employee = NoRow THEN After(Throw(c, NotFoundError("Employee", c.id)), table, next)
      ELSE After(Return(c, [employee |-> employee]), table, next)

getAllEmployeesStep(c, table, next, time) ==
  CASE c.pc = "count" ->
         After([Goto(c, "select") EXCEPT !.total = countAll(table, c.options)], table, next)
    [] c.pc = "select" ->
         LET page == IF "page" \in DOMAIN c.options THEN c.options.page ELSE DefaultPage
             limit == IF "limit" \in DOMAIN c.options THEN c.options.limit ELSE DefaultLimit
         IN  After(Return(c, [employees |-> selectPage(table, c.options),
                              total |-> c.total, page |-> page, limit |-> limit,
                              totalPages |-> totalPages(c.total, limit)]),
                   table, next)

updateEmployeeStep(c, table, next, time) ==
  CASE c.pc = "findById" ->
         LET existingEmployee == findById(table, c.id, FALSE)
         IN  IF existingEmployee = NoRow
               THEN After(Throw(c, NotFoundError("Employee", c.id)), table, next)
             ELSE IF /\ "email" \in DOMAIN c.data
                     /\ c.data.email # ""
                     /\ c.data.email # existingEmployee.email
               THEN After(Goto(c, "emailExists"), table, next)
             ELSE After(Goto(c, "update"), table, next)
    [] c.pc = "emailExists" ->
         IF emailExists(table, c.data.email, c.id)
           THEN After(Throw(c, ConflictError("Employee with email " \o c.data.email
                                               \o " already exists")), table, next)
           ELSE After(Goto(c, "update"), table, next)
    [] c.pc = "update" ->
         LET r == update(table, c.id, c.data, time)
         IN  IF ~r.ok THEN After(Throw(c, UniqueConstraintError), table, next)
             ELSE IF r.count = 0
               THEN After(Throw(c, NotFoundError("Employee", c.id)), table, next)
             ELSE After(Goto(c, "findUpdated"), r.table, next)
    [] c.pc = "findUpdated" ->
         LET updatedEmployee == findById(table, c.id, FALSE)
         IN  IF updatedEmployee = NoRow
               THEN After(Throw(c, NotFoundError("Employee", c.id)), table, next)
               ELSE After(Return(c, [employee |-> updatedEmployee]), table, next)

\* slip: the row is marked deleted whether or not it is active
deleteEmployeeStep_anyRow(c, table, next, time) ==
  IF c.id \notin DOMAIN table
    THEN After(Throw(c, NotFoundError("Employee", c.id)), table, next)
    ELSE After(Return(c, [boolean |-> TRUE]),
               [table EXCEPT ![c.id].deleted_at = time, ![c.id].updated_at = time], next)

deleteEmployeeStep(c, table, next, time) ==
  CASE c.pc = "findById" ->
         IF findById(table, c.id, FALSE) = NoRow
           THEN After(Throw(c, NotFoundError("Employee", c.id)), table, next)
           ELSE After(Goto(c, "delete"), table, next)
    [] c.pc = "delete" ->
         LET r == delete(table, c.id, time)
         IN  After(Return(c, [boolean |-> r.count > 0]), r.table, next)

restoreEmployeeStep(c, table, next, time) ==
  LET r == restore(table, c.id, time)
  IN  After(Return(c, [boolean |-> r.count > 0]), r.table, next)

forceDeleteEmployeeStep(c, table, next, time) ==
  CASE c.pc = "findById" ->
         IF findById(table, c.id, TRUE) = NoRow
           THEN After(Throw(c, NotFoundError("Employee", c.id)), table, next)
           ELSE After(Goto(c, "forceDelete"), table, next)
    [] c.pc = "forceDelete" ->
         LET r == forceDelete(table, c.id)
         IN  After(Return(c, [boolean |-> r.count > 0]), r.table, next)

getDeletedEmployeesStep(c, table, next, time) ==
  After(Return(c, [deleted |-> findDeleted(table)]), table, next)

getEmployeeSalaryDetailsStep(c, table, next, time) ==
  LET employee == findById(table, c.id, FALSE)
  IN  IF employee = NoRow THEN After(Throw(c, NotFoundError("Employee", c.id)), table, next)
      ELSE After(Return(c, [details |->
                   calculateSalaryDetailsWide(employee.grossSalaryCents,
                                              CountryOrDefault(employee.country))]),
                 table, next)

\* `Promise.all` of the two aggregations: both statements are issued at once
\* and the database runs them one after the other
getSalaryMetricsStep(c, table, next, time) ==
  CASE c.pc = "byCountry" ->
         After([Goto(c, "byJobTitle") EXCEPT
                  !.byCountry = getSalaryMetricsByCountry(table, c.options)],
               table, next)
    [] c.pc = "byJobTitle" ->
         After(Return(c, [byCountry |-> c.byCountry,
                          byJobTitle |-> getSalaryMetricsByJobTitle(table, c.options)]),
               table, next)

\* what call c does up to its next await (or to its end)
ServiceStep(c, table, next, time) ==
  CASE c.op = "createEmployee" -> createEmployeeStep(c, table, next, time)
    [] c.op = "getEmployeeById" -> getEmployeeByIdStep(c, table, next, time)
    [] c.op = "getAllEmployees" -> getAllEmployeesStep(c, table, next, time)
    [] c.op = "updateEmployee" -> updateEmployeeStep(c, table, next, time)
    [] c.op = "deleteEmployee" -> deleteEmployeeStep(c, table, next, time)
    [] c.op = "restoreEmployee" -> restoreEmployeeStep(c, table, next, time)
    [] c.op = "forceDeleteEmployee" -> forceDeleteEmployeeStep(c, table, next, time)
    [] c.op = "getDeletedEmployees" -> getDeletedEmployeesStep(c, table, next, time)
    [] c.op = "getEmployeeSalaryDetails" -> getEmployeeSalaryDetailsStep(c, table, next, time)
    [] c.op = "getSalaryMetrics" -> getSalaryMetricsStep(c, table, next, time)

\* the call of a method, whose statements are step, run to its end with no
\* other call in between
RECURSIVE Run(_, _, _, _, _)
Run(step(_, _, _, _), c, table, next, time) ==
  IF IsDone(c) THEN After(c, table, next)
  ELSE Only({ Run(step, s.call, s.table, s.nextId, time) :
                s \in { step(c, table, next, time) } })

\* any call run to its end
RunCall(c, table, next, time) == Run(ServiceStep, c, table, next, time)

----------------------------------------------------------------------------
(* schemas/employee.schema and middleware/validation.middleware.

   A request is [route, params, query, body].  name and jobTitle are
   character sequences; email, country and params.id are strings; a JSON
   value given for grossSalaryCents is [type, negative, magnitude, fraction]:
   its JSON type, its sign, its integer part and whether it has a fractional
   part. *)

COUNTRY_CODES == {"US", "UK", "IN", "CA"}

MIN_SALARY_CENTS == << >>
MAX_SALARY_CENTS == Big(1, 0, 0)

Space == " "

RECURSIVE trimStart(_)
trimStart(s) == IF s # << >> /\ Head(s) = Space THEN trimStart(Tail(s)) ELSE s

RECURSIVE trimEnd(_)
trimEnd(s) ==
  IF s # << >> /\ s[Len(s)] = Space THEN trimEnd(SubSeq(s, 1, Len(s) - 1)) ELSE s

trim(s) == trimEnd(trimStart(s))

\* the email strings of the model: their lower-case form, whether they match
\* the pattern of `.email()`, and their length
MixedCaseEmail == "Ann@X.io"
MalformedEmail == "ann.x.io"
LongEmail == "<250 characters>@x.io"

toLowerCase(s) == IF s = MixedCaseEmail THEN "ann@x.io" ELSE s
isEmail(s) == s # MalformedEmail /\ s # ""
EmailLength(s) == IF s = LongEmail THEN 256 ELSE 8

\* /^\d+$/ on the strings of the model, and parseInt(s, 10) of such a string
MaxParsed == 101
IsDigits(s) == \E n \in 0 .. MaxParsed : ToString(n) = s
parseInt(s) == CHOOSE n \in 0 .. MaxParsed : ToString(n) = s

\* `.string().min(2).max(100).trim()`: the length is checked before the trim
TextOk(s) == Len(s) >= 2 /\ Len(s) <= 100

\* `.string().email().toLowerCase().max(255)`
EmailOk(s) == isEmail(s) /\ EmailLength(toLowerCase(s)) <= 255

\* `.number().int().min(MIN_SALARY_CENTS).max(MAX_SALARY_CENTS)`
SalaryOk(v) ==
  /\ v.type = "number"
  /\ ~v.fraction
  /\ (v.negative => v.magnitude = << >>)
  /\ BigLeq(MIN_SALARY_CENTS, v.magnitude)
  /\ BigLeq(v.magnitude, MAX_SALARY_CENTS)

EmployeeFields == {"name", "email", "jobTitle", "country", "grossSalaryCents"}

\* slip: the country is any string
FieldOk_anyCountry(f, v) ==
  CASE f = "name" -> TextOk(v)
    [] f = "email" -> EmailOk(v)
    [] f = "jobTitle" -> TextOk(v)
    [] f = "country" -> TRUE
    [] f = "grossSalaryCents" -> SalaryOk(v)

FieldOk(f, v) ==
  CASE f = "name" -> TextOk(v)
    [] f = "email" -> EmailOk(v)
    [] f = "jobTitle" -> TextOk(v)
    [] f = "country" -> v \in COUNTRY_CODES
    [] f = "grossSalaryCents" -> SalaryOk(v)

\* the value the schema hands on for a field that passed
Parsed(f, v) ==
  CASE f = "name" -> trim(v)
    [] f = "email" -> toLowerCase(v)
    [] f = "jobTitle" -> trim(v)
    [] f = "country" -> v
    [] f = "grossSalaryCents" -> v.magnitude

\* unknown keys are stripped
ParsedBody(body) ==
  [f \in DOMAIN body \cap EmployeeFields |-> Parsed(f, body[f])]

ParamsOk(params) == "id" \in DOMAIN params /\ IsDigits(params.id)

createEmployeeSchema(req) ==
  IF /\ EmployeeFields \subseteq DOMAIN req.body
     /\ \A f \in EmployeeFields : FieldOk(f, req.body[f])
    THEN [success |-> TRUE, req |-> [req EXCEPT !.body = ParsedBody(req.body)]]
    ELSE [success |-> FALSE, req |-> req]

\* every field of the body is optional
updateEmployeeSchema(req) ==
  IF /\ ParamsOk(req.params)
     /\ \A f \in DOMAIN req.body \cap EmployeeFields : FieldOk(f, req.body[f])
    THEN [success |-> TRUE, req |-> [req EXCEPT !.body = ParsedBody(req.body)]]
    ELSE [success |-> FALSE, req |-> req]

employeeIdSchema(req) ==
  [success |-> ParamsOk(req.params), req |-> req]

MaxLimit == 100

\* page and limit are digit strings (default '1' and '10') turned into
\* numbers, limit at most 100; country is one of COUNTRY_CODES; jobTitle has
\* at most 100 characters and is trimmed
paginationSchema(req) ==
  LET q == req.query
      page == IF "page" \in DOMAIN q THEN q.page ELSE ToString(DefaultPage)
      limit == IF "limit" \in DOMAIN q THEN q.limit ELSE ToString(DefaultLimit)
      ok == /\ IsDigits(page)
            /\ IsDigits(limit)
            /\ parseInt(limit) <= MaxLimit
            /\ "country" \in DOMAIN q => q.country \in COUNTRY_CODES
            /\ "jobTitle" \in DOMAIN q => Len(q.jobTitle) <= 100
      parsed == [k \in (DOMAIN q \cap {"country", "jobTitle"}) \cup {"page", "limit"} |->
                   CASE k = "page" -> parseInt(page)
                     [] k = "limit" -> parseInt(limit)
                     [] k = "country" -> q.country
                     [] k = "jobTitle" -> trim(q.jobTitle)]
  IN  IF ok THEN [success |-> TRUE, req |-> [req EXCEPT !.query = parsed]]
      ELSE [success |-> FALSE, req |-> req]

\* The first handler of a route: validate(schema), or none.  A ZodError is
\* answered with 400 and the chain ends; otherwise the request, with the
\* validated parts replaced, goes on to the controller.
RouteSchema(route) ==
  CASE route = "POST /" -> "createEmployeeSchema"
    [] route = "GET /" -> "paginationSchema"
    [] route = "PUT /:id" -> "updateEmployeeSchema"
    [] route \in {"GET /:id", "DELETE /:id", "POST /:id/restore",
                  "DELETE /:id/force", "GET /:id/salary"} -> "employeeIdSchema"
    [] OTHER -> "none"

\* slip: the outcome of the parse is ignored
validate_passAll(schema, req) == [success |-> TRUE, req |-> req]

validate(schema, req) ==
  CASE schema = "createEmployeeSchema" -> createEmployeeSchema(req)
    [] schema = "paginationSchema" -> paginationSchema(req)
    [] schema = "updateEmployeeSchema" -> updateEmployeeSchema(req)
    [] schema = "employeeIdSchema" -> employeeIdSchema(req)
    [] OTHER -> [success |-> TRUE, req |-> req]

----------------------------------------------------------------------------
(* middleware/error.middleware and controllers/employee.controller *)

NoContent == [none |-> TRUE]

Response(code, status, message, data) ==
  [statusCode |-> code, status |-> status, message |-> message, data |-> data]

ValidationFailed == Response(400, "error", "Validation failed", NoContent)

\* an AppError is answered with its statusCode and message, anything else
\* with 500 and, outside development, a generic message
errorHandler(err, env) ==
  IF err.isAppError \/ err.name \in {"AppError", "NotFoundError"}
    THEN Response(IF err.statusCode # 0 THEN err.statusCode ELSE 500,
                  "error", err.message, NoContent)
    ELSE Response(500, "error",
                  IF env = "development" THEN err.message ELSE "Internal server error",
                  NoContent)

\* what a handler leaves behind: the response, the table, the next id and
\* the service calls it made, in order
Handled(response, s, made) ==
  [response |-> response, table |-> s.table, nextId |-> s.nextId, calls |-> made]

IsThrown(c) == "thrown" \in DOMAIN c.outcome

\* `try { ... await service call ...; res.status(code).json(...) }
\*  catch (error) { next(error) }` around one service call, of which ran is
\* the outcome
Answer(ran, code, env) ==
  LET Answered(s) ==
        IF IsThrown(s.call)
          THEN Handled(errorHandler(s.call.outcome.thrown, env), s, << s.call >>)
          ELSE Handled(Response(code, IF code = 204 THEN "" ELSE "success", "",
                                IF code = 204 THEN NoContent ELSE s.call.outcome.returned),
                       s, << s.call >>)
  IN  Only({ Answered(s) : s \in { ran } })

controller_create(req, table, next, time, env) ==
  Answer(Run(createEmployeeStep, createEmployee(req.body),
             table, next, time),
         201, env)

controller_getById(req, table, next, time, env) ==
  Answer(Run(getEmployeeByIdStep, getEmployeeById(parseInt(req.params.id), FALSE),
             table, next, time),
         200, env)

\* `page ? Number(page) : undefined`: page 0 and limit 0 are passed as undefined
controller_getAll(req, table, next, time, env) ==
  LET q == req.query
      options == [k \in { k \in DOMAIN q :
                            /\ k \in {"page", "limit"} => q[k] # 0 } |-> q[k]]
  IN  Answer(Run(getAllEmployeesStep, getAllEmployees(options),
             table, next, time),
         200, env)

controller_update(req, table, next, time, env) ==
  Answer(Run(updateEmployeeStep, updateEmployee(parseInt(req.params.id), req.body),
             table, next, time),
         200, env)

controller_delete(req, table, next, time, env) ==
  Answer(Run(deleteEmployeeStep, deleteEmployee(parseInt(req.params.id)),
             table, next, time),
         204, env)

controller_restore(req, table, next, time, env) ==
  LET id == parseInt(req.params.id)
      Found(s, t) ==
        IF IsThrown(t.call)
          THEN Handled(errorHandler(t.call.outcome.thrown, env), t, << s.call, t.call >>)
          ELSE Handled(Response(200, "success", "", t.call.outcome.returned), t,
                       << s.call, t.call >>)
      Restored(s) ==
        IF IsThrown(s.call)
          THEN Handled(errorHandler(s.call.outcome.thrown, env), s, << s.call >>)
        ELSE IF ~s.call.outcome.returned.boolean
          THEN Handled(Response(404, "fail", "No soft-deleted employee found with that ID",
                                NoContent), s, << s.call >>)
        ELSE Only({ Found(s, t) :
                      t \in { Run(getEmployeeByIdStep, getEmployeeById(id, FALSE),
                                 s.table, s.nextId, time) } })
  IN  Only({ Restored(s) :
               s \in { Run(restoreEmployeeStep, restoreEmployee(id), table, next, time) } })

controller_forceDelete(req, table, next, time, env) ==
  LET Deleted(s) ==
        IF IsThrown(s.call)
          THEN Handled(errorHandler(s.call.outcome.thrown, env), s, << s.call >>)
        ELSE IF ~s.call.outcome.returned.boolean
          THEN Handled(Response(404, "fail", "No employee found with that ID", NoContent),
                       s, << s.call >>)
        ELSE Handled(Response(204, "", "", NoContent), s, << s.call >>)
  IN  Only({ Deleted(s) :
               s \in { Run(forceDeleteEmployeeStep,
                           forceDeleteEmployee(parseInt(req.params.id)),
                           table, next, time) } })

controller_getDeleted(req, table, next, time, env) ==
  Answer(Run(getDeletedEmployeesStep, getDeletedEmployees,
             table, next, time),
         200, env)

controller_getSalaryDetails(req, table, next, time, env) ==
  Answer(Run(getEmployeeSalaryDetailsStep, getEmployeeSalaryDetails(parseInt(req.params.id)),
             table, next, time),
         200, env)

\* the query is read as it came
controller_getSalaryMetrics(req, table, next, time, env) ==
  Answer(Run(getSalaryMetricsStep, getSalaryMetrics([k \in DOMAIN req.query \cap {"country", "jobTitle"} |-> req.query[k]]),
             table, next, time),
         200, env)

\* the request as validate(schema) hands it on to the controller
Validated(req) == validate(RouteSchema(req.route), req).req

\* createEmployeeRoutes: the handlers of the route in order, validate(schema)
\* where the route has one and then the controller's handler, of which
\* handled is the outcome on Validated(req); it is not run (its value is not
\* looked at) when the validation fails.  The exchange
\* records the request, the schema it was checked against ("none" when the
\* route has no validate handler), whether the check passed, how often the
\* controller ran, the service calls made and the response.
Route(req, handled, table, next) ==
  LET schema == RouteSchema(req.route)
      Passed(h) ==
        [exchange |-> [request |-> req, schema |-> schema, valid |-> TRUE,
                       controllerRuns |-> 1, calls |-> h.calls, response |-> h.response],
         table |-> h.table, nextId |-> h.nextId]
      Examined(v) ==
        IF ~v.success
          THEN [exchange |-> [request |-> req, schema |-> schema, valid |-> FALSE,
                              controllerRuns |-> 0, calls |-> << >>,
                              response |-> ValidationFailed],
                table |-> table, nextId |-> next]
          ELSE Only({ Passed(h) : h \in { handled } })
  IN  Only({ Examined(v) : v \in { validate(schema, req) } })

----------------------------------------------------------------------------
(* The HTTP API, one request at a time: every action is one request handled
   from its route to its response. *)

MaxId == 2

Num(n) == [type |-> "number", negative |-> FALSE, magnitude |-> BigOfInt(n), fraction |-> FALSE]
WideNum(a) == [type |-> "number", negative |-> FALSE, magnitude |-> a, fraction |-> FALSE]

Ann ==
  [name |-> << "A", "n", "n" >>, email |-> "ann@x.io", jobTitle |-> << "D", "e", "v" >>,
   country |-> "US", grossSalaryCents |-> Num(5000000)]

Bob ==
  [name |-> << "B", "o", "b" >>, email |-> "bob@x.io", jobTitle |-> << "O", "p", "s" >>,
   country |-> "IN", grossSalaryCents |-> Num(30000000)]

\* two employees, and the first one's address in another case
CreateBodies == { Ann, Bob, [Ann EXCEPT !.email = MixedCaseEmail] }

UpdateBodies ==
  { NoData, [email |-> "ann@x.io"], [email |-> "bob@x.io"],
    [name |-> << "E", "v", "e" >>, grossSalaryCents |-> Num(100000)] }

\* the ids handed out and one that never is
IdStrings == { ToString(i) : i \in 1 .. (MaxId + 1) }

PageQueries == { NoData, [page |-> "2", limit |-> "1"] }

MetricsQueries == { NoData, [country |-> "US"] }

Request(route, params, query, body) ==
  [body |-> body, params |-> params, query |-> query, route |-> route]

NoExchange == [none |-> TRUE]
NoCalls == << >>

SalaryAtRest ==
  /\ grossSalaryCents = 0
  /\ country = ""
  /\ called = "none"
  /\ returned = Nothing

\* an empty table in production
ApiInit ==
  /\ employees = << >>
  /\ nextId = FirstId
  /\ now = 1
  /\ NODE_ENV = "production"
  /\ exchange = NoExchange
  /\ calls = NoCalls
  /\ SalaryAtRest
  /\ ProcessAtRest

\* the request is handled by the handlers of its route
Handle(req, handled) ==
  \E r \in { Route(req, handled, employees, nextId) } :
    /\ employees' = r.table
    /\ nextId' = r.nextId
    /\ exchange' = r.exchange
    /\ UNCHANGED <<now, NODE_ENV, calls, salaryVars, processVars>>

PostEmployeeFrom(bodies) ==
  /\ nextId <= MaxId
  /\ \E body \in bodies : Handle(Request("POST /", NoData, NoData, body),
           controller_create(Validated(Request("POST /", NoData, NoData, body)),
             employees, nextId, now, NODE_ENV))

GetEmployeesFrom(queries) ==
  \E query \in queries : Handle(Request("GET /", NoData, query, NoData),
           controller_getAll(Validated(Request("GET /", NoData, query, NoData)),
             employees, nextId, now, NODE_ENV))

GetSalaryMetricsFrom(queries) ==
  \E query \in queries :
    Handle(Request("GET /salary-metrics", NoData, query, NoData),
           controller_getSalaryMetrics(Validated(Request("GET /salary-metrics", NoData, query, NoData)),
             employees, nextId, now, NODE_ENV))

GetEmployeeFrom(ids) ==
  \E id \in ids : Handle(Request("GET /:id", [id |-> id], NoData, NoData),
           controller_getById(Validated(Request("GET /:id", [id |-> id], NoData, NoData)),
             employees, nextId, now, NODE_ENV))

PutEmployeeFrom(ids, bodies) ==
  \E id \in ids, body \in bodies :
    Handle(Request("PUT /:id", [id |-> id], NoData, body),
           controller_update(Validated(Request("PUT /:id", [id |-> id], NoData, body)),
             employees, nextId, now, NODE_ENV))

PostEmployee == PostEmployeeFrom(CreateBodies)

GetEmployees == GetEmployeesFrom(PageQueries)

GetDeleted == Handle(Request("GET /deleted", NoData, NoData, NoData),
           controller_getDeleted(Validated(Request("GET /deleted", NoData, NoData, NoData)),
             employees, nextId, now, NODE_ENV))

GetSalaryMetrics == GetSalaryMetricsFrom(MetricsQueries)

GetEmployee == GetEmployeeFrom(IdStrings)

PutEmployee == PutEmployeeFrom(IdStrings, UpdateBodies)

DeleteEmployee ==
  \E id \in IdStrings :
    Handle(Request("DELETE /:id", [id |-> id], NoData, NoData),
           controller_delete(Validated(Request("DELETE /:id", [id |-> id], NoData, NoData)),
             employees, nextId, now, NODE_ENV))

RestoreEmployee ==
  \E id \in IdStrings :
    Handle(Request("POST /:id/restore", [id |-> id], NoData, NoData),
           controller_restore(Validated(Request("POST /:id/restore", [id |-> id], NoData, NoData)),
             employees, nextId, now, NODE_ENV))

ForceDeleteEmployee ==
  \E id \in IdStrings :
    Handle(Request("DELETE /:id/force", [id |-> id], NoData, NoData),
           controller_forceDelete(Validated(Request("DELETE /:id/force", [id |-> id], NoData, NoData)),
             employees, nextId, now, NODE_ENV))

GetSalaryDetails ==
  \E id \in IdStrings :
    Handle(Request("GET /:id/salary", [id |-> id], NoData, NoData),
           controller_getSalaryDetails(Validated(Request("GET /:id/salary", [id |-> id], NoData, NoData)),
             employees, nextId, now, NODE_ENV))

ApiNext ==
  \/ PostEmployee
  \/ GetEmployees
  \/ GetDeleted
  \/ GetSalaryMetrics
  \/ GetEmployee
  \/ PutEmployee
  \/ DeleteEmployee
  \/ RestoreEmployee
  \/ ForceDeleteEmployee
  \/ GetSalaryDetails

SpecApi == ApiInit /\ [][ApiNext]_vars

----------------------------------------------------------------------------
(* The HTTP API with requests that the schemas reject: bodies, ids and
   queries at and beyond the limits of the schemas, one request at a time. *)

Salary(type, negative, magnitude, fraction) ==
  [type |-> type, negative |-> negative, magnitude |-> magnitude, fraction |-> fraction]

\* 0, 99999, 100000, 10^11, 10^11 + 1, 10^12, 10^12 + 1, -1000, 1000.5, '5000000'
SalaryValues ==
  { Num(0), Num(99999), Num(100000),
    WideNum(Big(0, 100000, 0)), WideNum(Big(0, 100000, 1)),
    WideNum(Big(1, 0, 0)), WideNum(Big(1, 0, 1)),
    Salary("number", TRUE, BigOfInt(1000), FALSE),
    Salary("number", FALSE, BigOfInt(1000), TRUE),
    Salary("string", FALSE, BigOfInt(5000000), FALSE) }

\* 1, 2, 100 and 101 characters, and one character between two spaces
TextValues ==
  { << "A" >>, << "A", "l" >>, Chars(100, "a"), Chars(101, "a"), << Space, "A", Space >> }

\* Ann with one field replaced or left out
BoundaryBodies ==
  { [Ann EXCEPT !.grossSalaryCents = v] : v \in SalaryValues }
    \cup { [Ann EXCEPT !.name = s] : s \in TextValues }
    \cup { [Ann EXCEPT !.jobTitle = s] : s \in { << "A" >>, Chars(101, "a") } }
    \cup { [Ann EXCEPT !.email = e] : e \in { MalformedEmail, LongEmail, MixedCaseEmail } }
    \cup { [Ann EXCEPT !.country = c] : c \in { "XX", "us" } }
    \cup { [f \in EmployeeFields \ {g} |-> Ann[f]] : g \in EmployeeFields }
    \cup { Ann, Bob }

BoundaryUpdates ==
  { NoData, [grossSalaryCents |-> Num(0)], [name |-> << "A" >>], [country |-> "XX"],
    [email |-> MalformedEmail] }

BoundaryIds == { "1", "0", "abc", "-1" }

BoundaryPages ==
  { NoData, [page |-> "abc"], [limit |-> "100"], [limit |-> "101"], [country |-> "XX"],
    [jobTitle |-> Chars(101, "a")] }

BoundaryMetrics == { NoData, [country |-> "XX"], [jobTitle |-> Chars(101, "a")] }

PostBoundaryEmployee == PostEmployeeFrom(BoundaryBodies)

GetBoundaryEmployees == GetEmployeesFrom(BoundaryPages)

GetBoundarySalaryMetrics == GetSalaryMetricsFrom(BoundaryMetrics)

PutBoundaryEmployee == PutEmployeeFrom(BoundaryIds, BoundaryUpdates)

\* the routes with validate(employeeIdSchema)
RequestById ==
  \E id \in BoundaryIds :
    LET ById(route) == Request(route, [id |-> id], NoData, NoData)
    IN  \/ Handle(ById("GET /:id"),
           controller_getById(Validated(ById("GET /:id")),
             employees, nextId, now, NODE_ENV))
        \/ Handle(ById("DELETE /:id"),
           controller_delete(Validated(ById("DELETE /:id")),
             employees, nextId, now, NODE_ENV))
        \/ Handle(ById("POST /:id/restore"),
           controller_restore(Validated(ById("POST /:id/restore")),
             employees, nextId, now, NODE_ENV))
        \/ Handle(ById("DELETE /:id/force"),
           controller_forceDelete(Validated(ById("DELETE /:id/force")),
             employees, nextId, now, NODE_ENV))
        \/ Handle(ById("GET /:id/salary"),
           controller_getSalaryDetails(Validated(ById("GET /:id/salary")),
             employees, nextId, now, NODE_ENV))

ValidationNext ==
  \/ PostBoundaryEmployee
  \/ GetBoundaryEmployees
  \/ GetDeleted
  \/ GetBoundarySalaryMetrics
  \/ PutBoundaryEmployee
  \/ RequestById

SpecValidation == ApiInit /\ [][ValidationNext]_vars

----------------------------------------------------------------------------
(* The service under concurrent callers: each client has at most one call
   under way, and the statements of the calls interleave in any order. *)

Clients == { "c1", "c2" }

Idle == [Call("none", 0, NoData, NoData, FALSE, "done") EXCEPT !.outcome = Returned(NoContent)]

CreateData == { ParsedBody(Ann), ParsedBody(Bob) }

UpdateData == { [email |-> "ann@x.io"], [email |-> "bob@x.io"] }

Ids == 1 .. MaxId

ServiceInit ==
  /\ employees = << >>
  /\ nextId = FirstId
  /\ now = 1
  /\ NODE_ENV = "production"
  /\ exchange = NoExchange
  /\ calls = [k \in Clients |-> Idle]
  /\ SalaryAtRest
  /\ ProcessAtRest

\* client k, with no call under way, makes the call
Start(k, call) ==
  /\ IsDone(calls[k])
  /\ calls' = [calls EXCEPT ![k] = call]
  /\ UNCHANGED <<employees, nextId, now, NODE_ENV, exchange, salaryVars, processVars>>

Creating == { k \in Clients : calls[k].op = "createEmployee" /\ ~IsDone(calls[k]) }

StartCreate ==
  /\ nextId + Cardinality(Creating) <= MaxId
  /\ \E k \in Clients, data \in CreateData : Start(k, createEmployee(data))

StartUpdate ==
  \E k \in Clients, id \in Ids, data \in UpdateData : Start(k, updateEmployee(id, data))

StartDelete == \E k \in Clients, id \in Ids : Start(k, deleteEmployee(id))

StartRestore == \E k \in Clients, id \in Ids : Start(k, restoreEmployee(id))

StartForceDelete == \E k \in Clients, id \in Ids : Start(k, forceDeleteEmployee(id))

\* the call of some client runs to its next await
Step ==
  \E k \in Clients :
    /\ ~IsDone(calls[k])
    /\ \E s \in { ServiceStep(calls[k], employees, nextId, now) } :
         /\ calls' = [calls EXCEPT ![k] = s.call]
         /\ employees' = s.table
         /\ nextId' = s.nextId
    /\ UNCHANGED <<now, NODE_ENV, exchange, salaryVars, processVars>>

ServiceNext ==
  \/ StartCreate
  \/ StartUpdate
  \/ StartDelete
  \/ StartRestore
  \/ StartForceDelete
  \/ Step

SpecService == ServiceInit /\ [][ServiceNext]_vars

----------------------------------------------------------------------------
(* middleware/error.middleware alone: errorHandler on the values that can be
   passed to next(error), in each environment. *)

Environments == { "production", "development", "test", "" }

Messages == { "Email already exists", "connect ECONNREFUSED 10.0.0.5:5432" }

\* instances of AppError and of its subclasses
AppErrors ==
  { AppError("AppError", s, m) : s \in { 400, 404, 409, 500 }, m \in Messages }
    \cup { NotFoundError("Employee", 7), ConflictError("Email already exists") }

\* values that are no instance of AppError: Errors of other classes and plain
\* objects, with or without a name and a statusCode of their own (0: none)
OtherErrors ==
  { [name |-> n, statusCode |-> s, message |-> m, isAppError |-> FALSE] :
      n \in { "Error", "TypeError", "", "AppError", "NotFoundError" },
      s \in { 0, 404 }, m \in Messages }

ErrorInit ==
  /\ employees = << >>
  /\ nextId = FirstId
  /\ now = 1
  /\ NODE_ENV \in Environments
  /\ exchange = NoExchange
  /\ calls = NoCalls
  /\ SalaryAtRest
  /\ ProcessAtRest

\* next(err) reaches errorHandler, which sends the response
HandleError ==
  /\ \E err \in AppErrors \cup OtherErrors :
       exchange' = [thrown |-> err, response |-> errorHandler(err, NODE_ENV)]
  /\ UNCHANGED <<employees, nextId, now, NODE_ENV, calls, salaryVars, processVars>>

ErrorNext == HandleError

SpecErrors == ErrorInit /\ [][ErrorNext]_vars

----------------------------------------------------------------------------
(* The HTTP API with colleagues: employees who share a country and a job
   title, with salaries whose means are whole, a half and thirds. *)

MaxColleagues == 3

ColleagueEmails == { "ann@x.io", "amy@x.io", "abe@x.io" }

ColleagueSalaries == { Num(100000), Num(100001), WideNum(MAX_SALARY_CENTS) }

Colleagues ==
  { [Ann EXCEPT !.email = e, !.grossSalaryCents = v] :
      e \in ColleagueEmails, v \in ColleagueSalaries }
    \cup { Bob }

PostColleague ==
  /\ nextId <= MaxColleagues
  /\ \E body \in Colleagues :
       Handle(Request("POST /", NoData, NoData, body),
              controller_create(Validated(Request("POST /", NoData, NoData, body)),
                                employees, nextId, now, NODE_ENV))

MetricsNext ==
  \/ PostColleague
  \/ DeleteEmployee
  \/ GetSalaryMetrics

SpecMetrics == ApiInit /\ [][MetricsNext]_vars

----------------------------------------------------------------------------
(* The HTTP API while time passes: employees created, soft-deleted and
   listed in pages at different times. *)

MaxTime == 3

\* the clock of the database advances
Tick ==
  /\ now < MaxTime
  /\ now' = now + 1
  /\ UNCHANGED <<employees, nextId, NODE_ENV, exchange, calls, salaryVars, processVars>>

Amy == [Ann EXCEPT !.email = "amy@x.io"]

ListedQueries ==
  { NoData, [page |-> "2", limit |-> "1"], [page |-> "1", limit |-> "2"],
    [page |-> "2", limit |-> "2"], [page |-> "0"], [limit |-> "0"],
    [limit |-> "101"], [country |-> "US"], [jobTitle |-> Ann.jobTitle] }

PostListed ==
  /\ nextId <= MaxColleagues
  /\ \E body \in { Ann, Amy, Bob } :
       Handle(Request("POST /", NoData, NoData, body),
              controller_create(Validated(Request("POST /", NoData, NoData, body)),
                                employees, nextId, now, NODE_ENV))

GetListed == GetEmployeesFrom(ListedQueries)

PagesNext ==
  \/ Tick
  \/ PostListed
  \/ DeleteEmployee
  \/ GetListed

SpecPages == ApiInit /\ [][PagesNext]_vars

----------------------------------------------------------------------------
(* The HTTP API while time passes: employees created, updated, soft-deleted
   and restored at different times. *)

UpdatesNext ==
  \/ Tick
  \/ PostEmployee
  \/ PutEmployee
  \/ DeleteEmployee
  \/ RestoreEmployee

SpecUpdates == ApiInit /\ [][UpdatesNext]_vars

----------------------------------------------------------------------------
(* config/database: the module's instance, `let dbInstance: Knex | null`,
   and its functions.  An instance is the number under which instances
   records its configuration and the destroy() calls made on it.
   closeConnection awaits destroy(): between its two halves other calls of
   the module run. *)

MaxInstances == 3

MaxClosing == 2

Configs == { "knexConfig", "customConfig" }

NotInitialized == "Database not initialized. Call initDb() first."

\* `knex(config)`, or an instance made by the caller
NewInstance(config) == [config |-> config, destroys |-> 0]

DatabaseAtRest ==
  /\ dbInstance = 0
  /\ instances = << >>
  /\ closing = 0
  /\ result = [call |-> "none"]

ServerAtRest ==
  /\ server = ""
  /\ connections = 0
  /\ waiting = 0
  /\ signals = 0
  /\ elapsed = 0
  /\ exitCode = -1

serverVars == <<server, connections, waiting, signals, elapsed, exitCode>>

DatabaseInit ==
  /\ StoreAtRest
  /\ SalaryAtRest
  /\ DatabaseAtRest
  /\ ServerAtRest

\* slip: every call makes an instance
initDb_everyCall ==
  /\ \E customConfig \in Configs :
       /\ Len(instances) < MaxInstances
       /\ instances' = Append(instances, NewInstance(customConfig))
       /\ dbInstance' = Len(instances) + 1
       /\ result' = [call |-> "initDb", config |-> customConfig,
                     returned |-> Len(instances) + 1]
  /\ UNCHANGED <<closing, serverVars, salaryVars, storeVars>>

initDb ==
  /\ \E customConfig \in Configs :
       IF dbInstance # 0
         THEN /\ result' = [call |-> "initDb", config |-> customConfig,
                            returned |-> dbInstance]
              /\ UNCHANGED <<dbInstance, instances>>
         ELSE /\ Len(instances) < MaxInstances
              /\ instances' = Append(instances, NewInstance(customConfig))
              /\ dbInstance' = Len(instances) + 1
              /\ result' = [call |-> "initDb", config |-> customConfig,
                            returned |-> Len(instances) + 1]
  /\ UNCHANGED <<closing, serverVars, salaryVars, storeVars>>

getDb ==
  /\ result' = IF dbInstance = 0 THEN [call |-> "getDb", thrown |-> NotInitialized]
               ELSE [call |-> "getDb", returned |-> dbInstance]
  /\ UNCHANGED <<dbInstance, instances, closing, serverVars, salaryVars, storeVars>>

\* the caller sets an instance of its own making
setDb ==
  /\ Len(instances) < MaxInstances
  /\ instances' = Append(instances, NewInstance("mock"))
  /\ dbInstance' = Len(instances) + 1
  /\ result' = [call |-> "setDb", set |-> Len(instances) + 1]
  /\ UNCHANGED <<closing, serverVars, salaryVars, storeVars>>

\* closeConnection up to its await: `if (dbInstance) { await
\* dbInstance.destroy()`, or its whole when no instance is set
closeConnection ==
  /\ IF dbInstance # 0
       THEN /\ closing < MaxClosing
            /\ instances' = [instances EXCEPT ![dbInstance].destroys = @ + 1]
            /\ closing' = closing + 1
            /\ result' = [call |-> "closeConnection", destroying |-> dbInstance]
       ELSE /\ result' = [call |-> "closeConnection", resolved |-> TRUE]
            /\ UNCHANGED <<instances, closing>>
  /\ UNCHANGED <<dbInstance, serverVars, salaryVars, storeVars>>

\* closeConnection after its await: `dbInstance = null; }`
closeConnectionResumed ==
  /\ closing > 0
  /\ closing' = closing - 1
  /\ dbInstance' = 0
  /\ result' = [call |-> "closeConnection", resolved |-> TRUE]
  /\ UNCHANGED <<instances, serverVars, salaryVars, storeVars>>

DatabaseNext ==
  \/ initDb
  \/ getDb
  \/ setDb
  \/ closeConnection
  \/ closeConnectionResumed

SpecDatabase == DatabaseInit /\ [][DatabaseNext]_vars

----------------------------------------------------------------------------
(* server: the process after startServer has initialised the database and
   the HTTP server listens.  gracefulShutdown asks the server to close and
   arms a timer; the server has closed when it no longer listens and its
   connections have ended; the callback of server.close then closes the
   database and exits. *)

MaxConnections == 2

MaxSignals == 2

\* `setTimeout(..., 10000)`, in seconds
ShutdownTimeout == 10

Running == exitCode = -1

ShutdownInit ==
  /\ StoreAtRest
  /\ SalaryAtRest
  /\ dbInstance = 1
  /\ instances = << NewInstance("knexConfig") >>
  /\ closing = 0
  /\ result = [call |-> "none"]
  /\ server = "listening"
  /\ connections = 0
  /\ waiting = 0
  /\ signals = 0
  /\ elapsed = 0
  /\ exitCode = -1

databaseVars == <<dbInstance, instances, closing>>

\* a client opens a connection
Connect ==
  /\ Running
  /\ server = "listening"
  /\ connections < MaxConnections
  /\ connections' = connections + 1
  /\ UNCHANGED <<databaseVars, result, server, waiting, signals, elapsed, exitCode,
                 salaryVars, storeVars>>

\* a client ends its connection
Disconnect ==
  /\ Running
  /\ connections > 0
  /\ connections' = connections - 1
  /\ UNCHANGED <<databaseVars, result, server, waiting, signals, elapsed, exitCode,
                 salaryVars, storeVars>>

\* SIGTERM or SIGINT: gracefulShutdown(signal) calls server.close(callback)
\* and sets the timer
gracefulShutdown ==
  /\ Running
  /\ signals < MaxSignals
  /\ \E signal \in { "SIGTERM", "SIGINT" } :
       result' = [call |-> "gracefulShutdown", signal |-> signal]
  /\ signals' = signals + 1
  /\ server' = IF server = "listening" THEN "closing" ELSE server
  /\ waiting' = waiting + 1
  /\ UNCHANGED <<databaseVars, connections, elapsed, exitCode, salaryVars, storeVars>>

\* the server, asked to close, has no connection left: 'close'
ServerClosed ==
  /\ Running
  /\ server = "closing"
  /\ connections = 0
  /\ server' = "closed"
  /\ UNCHANGED <<databaseVars, result, connections, waiting, signals, elapsed, exitCode,
                 salaryVars, storeVars>>

\* slip: the callback does not wait for 'close'
CloseCallback_withoutClose ==
  /\ Running
  /\ server \in { "closing", "closed" }
  /\ waiting > 0
  /\ waiting' = waiting - 1
  /\ IF dbInstance # 0
       THEN /\ instances' = [instances EXCEPT ![dbInstance].destroys = @ + 1]
            /\ closing' = closing + 1
            /\ UNCHANGED exitCode
       ELSE /\ exitCode' = 0
            /\ UNCHANGED <<instances, closing>>
  /\ UNCHANGED <<dbInstance, result, server, connections, signals, elapsed,
                 salaryVars, storeVars>>

\* the callback of server.close up to the await in closeConnection; without
\* an instance closeConnection resolves and the callback goes on to exit
CloseCallback ==
  /\ Running
  /\ server = "closed"
  /\ waiting > 0
  /\ waiting' = waiting - 1
  /\ IF dbInstance # 0
       THEN /\ instances' = [instances EXCEPT ![dbInstance].destroys = @ + 1]
            /\ closing' = closing + 1
            /\ UNCHANGED exitCode
       ELSE /\ exitCode' = 0
            /\ UNCHANGED <<instances, closing>>
  /\ UNCHANGED <<dbInstance, result, server, connections, signals, elapsed,
                 salaryVars, storeVars>>

\* destroy() has resolved: closeConnection clears the instance and the
\* callback calls process.exit(0)
CloseCallbackResumed ==
  /\ Running
  /\ closing > 0
  /\ closing' = closing - 1
  /\ dbInstance' = 0
  /\ exitCode' = 0
  /\ UNCHANGED <<instances, result, server, connections, waiting, signals, elapsed,
                 salaryVars, storeVars>>

\* a second passes on the timer
SecondPasses ==
  /\ Running
  /\ signals > 0
  /\ elapsed < ShutdownTimeout
  /\ elapsed' = elapsed + 1
  /\ UNCHANGED <<databaseVars, result, server, connections, waiting, signals, exitCode,
                 salaryVars, storeVars>>

\* the timer fires: process.exit(1)
ForcedShutdown ==
  /\ Running
  /\ signals > 0
  /\ elapsed = ShutdownTimeout
  /\ exitCode' = 1
  /\ UNCHANGED <<databaseVars, result, server, connections, waiting, signals, elapsed,
                 salaryVars, storeVars>>

ShutdownNext ==
  \/ Connect
  \/ Disconnect
  \/ gracefulShutdown
  \/ ServerClosed
  \/ CloseCallback
  \/ CloseCallbackResumed
  \/ SecondPasses
  \/ ForcedShutdown

SpecShutdown == ShutdownInit /\ [][ShutdownNext]_vars

\* The clock goes on and the event loop runs the timer's callback when it
\* is due.  Nothing makes a client end its connection or destroy() resolve.
FairShutdown ==
  /\ SpecShutdown
  /\ WF_vars(SecondPasses)
  /\ WF_vars(ForcedShutdown)

----------------------------------------------------------------------------
(* Properties *)

IsDetails == called = "calculateSalaryDetails"

\* C1: for gross >= 0 and a supported country the breakdown's total is the sum
\* of the amounts of its three deductions (tax, insurance, retirement) and its
\* net is the gross minus that total.
C1_TotalAndNet ==
  (IsDetails /\ grossSalaryCents >= 0 /\ country \in SupportedCountries) =>
    /\ Len(returned.details.deductions) = 3
    /\ returned.details.deductions[1].type = "TAX"
    /\ returned.details.deductions[2].type = "INSURANCE"
    /\ returned.details.deductions[3].type = "RETIREMENT"
    /\ returned.details.totalDeductionsCents =
         returned.details.deductions[1].amountCents + returned.details.deductions[2].amountCents
           + returned.details.deductions[3].amountCents
    /\ returned.details.grossSalaryCents = grossSalaryCents
    /\ returned.details.netSalaryCents = grossSalaryCents - returned.details.totalDeductionsCents

C1_Witness ==
  /\ IsDetails /\ country = "US" /\ grossSalaryCents = 10000000
  /\ returned.details.deductions[2].amountCents = 500000
  /\ returned.details.deductions[3].amountCents = 300000
  /\ returned.details.deductions[1].amountCents > 0
  /\ returned.details.netSalaryCents = 10000000 - returned.details.totalDeductionsCents

\* C2: for a country code other than US, UK, IN, CA (the 'XX' sentinel
\* included) tax, insurance and retirement are all 0 for every gross, so the
\* breakdown has total deductions 0 and net = gross.
C2_NoDeductionsElsewhere ==
  (country \in Countries \ SupportedCountries) =>
    /\ called \in {"calculateTax", "calculateInsurance", "calculateRetirement"} =>
         returned.number = 0
    /\ IsDetails =>
         /\ \A i \in 1..3 : returned.details.deductions[i].amountCents = 0
         /\ returned.details.totalDeductionsCents = 0
         /\ returned.details.netSalaryCents = returned.details.grossSalaryCents

\* C3: hasTaxDeductions(country) is true exactly when country is a key of the
\* bracket table whose bracket list is not empty.
C3_HasDeductionsIffBrackets ==
  called = "hasTaxDeductions" =>
    (returned.boolean <=> (country \in DOMAIN TAX_BRACKETS /\ TAX_BRACKETS[country] # << >>))

\* The walk as C4 words it.  allocated: what a bracket takes of `remaining`,
\* nothing when remaining <= minCents, the last bracket being unbounded.
C4_Allocated(brackets, i, remaining) ==
  IF remaining <= brackets[i].minCents THEN 0
  ELSE IF i = Len(brackets) THEN remaining - brackets[i].minCents
  ELSE IF remaining - brackets[i].minCents <= brackets[i].maxCents - brackets[i].minCents
    THEN remaining - brackets[i].minCents
    ELSE brackets[i].maxCents - brackets[i].minCents

\* remaining before bracket i: gross, reduced by what brackets 1..i-1 took
C4_Remaining(brackets, gross) ==
  LET rem[i \in 1 .. Len(brackets)] ==
        IF i = 1 THEN gross
        ELSE rem[i - 1] - C4_Allocated(brackets, i - 1, rem[i - 1])
  IN  rem

\* floor(amount * rate / 100): every rate of the table is a multiple of 0.5,
\* so this is floor(amount * (2 * rate) / 200)
C4_FloorOfRate(amount, rateTenths) ==
  LET twice == rateTenths \div 5
  IN  (amount \div 200) * twice + ((amount % 200) * twice) \div 200

C4_WalkTax(brackets, gross) ==
  LET rem == C4_Remaining(brackets, gross)
      sum[i \in 0 .. Len(brackets)] ==
        IF i = 0 THEN 0
        ELSE sum[i - 1]
             + C4_FloorOfRate(C4_Allocated(brackets, i, rem[i]), brackets[i].rateTenths)
  IN  sum[Len(brackets)]

C5_Inside(gross, lower, upper) ==
  IF gross <= lower THEN 0
  ELSE IF upper = Null \/ gross <= upper THEN gross - lower
  ELSE upper - lower

\* US tax as the documentation of calculateTax describes it: 10% of the first
\* $10,000, 12% of the next $30,000, 22% of the income from there to $85,000
\* and 24% of the income above $85,000
C5_ProgressiveUS(gross) ==
  C4_FloorOfRate(C5_Inside(gross, 0, 1000000), 100)
  + C4_FloorOfRate(C5_Inside(gross, 1000000, 4000000), 120)
  + C4_FloorOfRate(C5_Inside(gross, 4000000, 8500000), 220)
  + C4_FloorOfRate(C5_Inside(gross, 8500000, Null), 240)

\* C5: calculateTax taxes each part of the gross at the rate of the bracket
\* whose income range it lies in, so that calculateTax(5000000, 'US') = 680000.
C5_ProgressiveTax ==
  (called = "calculateTax" /\ country = "US" /\ grossSalaryCents >= 0) =>
    /\ returned.number = C5_ProgressiveUS(grossSalaryCents)
    /\ grossSalaryCents = 5000000 => returned.number = 680000

\* C6: for gross < 0 and every country calculateSalaryDetails returns the
\* breakdown of gross 0: gross 0, every deduction 0 with percentage 0, total
\* deductions 0 and net 0.
C6_NegativeAsZero ==
  (IsDetails /\ grossSalaryCents < 0) =>
    /\ returned.details = calculateSalaryDetails(0, country)
    /\ returned.details.grossSalaryCents = 0
    /\ \A i \in 1..3 :
         /\ returned.details.deductions[i].amountCents = 0
         /\ returned.details.deductions[i].percentage.num = 0
    /\ returned.details.totalDeductionsCents = 0
    /\ returned.details.netSalaryCents = 0

C6_Witness ==
  /\ IsDetails /\ grossSalaryCents = -1000 /\ country = "US"
  /\ returned.details.grossSalaryCents = 0
  /\ returned.details.netSalaryCents = 0

C8_TaxMonotone ==
  (called = "calculateTax" /\ country \in SupportedCountries /\ grossSalaryCents >= 0) =>
    \A g1 \in GrossInputs :
      (0 <= g1 /\ g1 <= grossSalaryCents) => calculateTax(g1, country) <= returned.number

\* a gross taxed strictly more than a smaller one
C8_Witness ==
  /\ called = "calculateTax" /\ country = "US" /\ grossSalaryCents = 5000000
  /\ 1000000 \in GrossInputs
  /\ calculateTax(1000000, "US") = 100000
  /\ returned.number = 459999

HasBrackets == called = "getTaxBrackets" /\ returned.brackets # << >>

\* C9: the bracket list of a country with deductions starts at 0, each later
\* bracket's minCents equals the previous bracket's maxCents, and only the
\* last bracket has no maxCents.
C9_ContiguousBrackets ==
  HasBrackets =>
    LET brackets == returned.brackets IN
    /\ brackets[1].minCents = 0
    /\ \A i \in 2 .. Len(brackets) : brackets[i].minCents = brackets[i - 1].maxCents
    /\ \A i \in 1 .. Len(brackets) : (brackets[i].maxCents = Null) <=> (i = Len(brackets))

\* C9 as amended: each later bracket starts one cent above the previous
\* bracket's maxCents; the ranges minCents .. maxCents are ascending, disjoint
\* and leave no cent out.
C9_AdjacentBrackets ==
  HasBrackets =>
    LET brackets == returned.brackets IN
    /\ brackets[1].minCents = 0
    /\ \A i \in 2 .. Len(brackets) : brackets[i].minCents = brackets[i - 1].maxCents + 1
    /\ \A i \in 1 .. Len(brackets) : (brackets[i].maxCents = Null) <=> (i = Len(brackets))
    /\ \A i \in 1 .. Len(brackets) - 1 : brackets[i].minCents < brackets[i].maxCents

C9_Witness ==
  /\ HasBrackets /\ country = "UK" /\ Len(returned.brackets) = 3
  /\ returned.brackets[2].minCents = 1250001

\* C10: for every gross and every country code the breakdown's net is >= 0.
C10_NetNonNegative ==
  IsDetails => returned.details.netSalaryCents >= 0

\* a breakdown under the highest rates of the table (UK 40%, plus both caps)
C10_Witness ==
  /\ IsDetails /\ country = "UK" /\ grossSalaryCents = 400000000
  /\ returned.details.totalDeductionsCents > 0
  /\ returned.details.netSalaryCents >= 0

\* the wide calculators agree with the narrow ones on amounts below 2^31
WideAgreesWithNarrow ==
  (IsDetails /\ BigLess(grossSalaryCents, BigPow2(31)))
    => LET d == calculateSalaryDetails(BigToInt(grossSalaryCents), country)
       IN  /\ BigToInt(returned.details.netSalaryCents) = d.netSalaryCents
           /\ BigToInt(returned.details.totalDeductionsCents) = d.totalDeductionsCents
           /\ \A i \in 1 .. 3 :
                BigToInt(returned.details.deductions[i].amountCents)
                  = d.deductions[i].amountCents

CapsApply == BigLeq(BigOfInt(20000000), grossSalaryCents)

\* C11: for every supported country and every gross salary from the amount at
\* which both caps apply (20,000,000) up to Number.MAX_SAFE_INTEGER, the
\* breakdown has insurance exactly 1,000,000, retirement exactly 500,000, a
\* positive total of deductions and a net strictly less than the gross.
C11_CapsAtLargeSalaries ==
  (IsDetails /\ country \in SupportedCountries /\ CapsApply)
    => /\ returned.details.deductions[2].amountCents = BigOfInt(1000000)
       /\ returned.details.deductions[3].amountCents = BigOfInt(500000)
       /\ returned.details.totalDeductionsCents # << >>
       /\ BigLess(returned.details.netSalaryCents, returned.details.grossSalaryCents)

\* the breakdown of Number.MAX_SAFE_INTEGER in the US, the tax rounded as the
\* double arithmetic rounds it
C11_Witness ==
  /\ IsDetails
  /\ country = "US"
  /\ grossSalaryCents = Big(9007, 199254, 740991)
  /\ returned.details.deductions[1].amountCents = Big(2161, 727818, 507836)
  /\ returned.details.deductions[2].amountCents = BigOfInt(1000000)
  /\ returned.details.deductions[3].amountCents = BigOfInt(500000)
  /\ BigLess(returned.details.netSalaryCents, grossSalaryCents)

----------------------------------------------------------------------------
(* Properties of the API.  In a step of SpecApi, exchange' is the request
   handled by the step, employees the table before it and employees' the
   table after it. *)

\* the step handled a request of the route and ran the controller
Ran(x, route) == "request" \in DOMAIN x /\ x.request.route = route /\ x.controllerRuns = 1

\* the first service call of the exchange
FirstCall(x) == x.calls[1]

ThrewNamed(c, name) == IsThrown(c) /\ c.outcome.thrown.name = name

\* some row of the table, active or soft-deleted, holds the email
Holds(table, email) == \E i \in DOMAIN table : table[i].email = email

\* C12: createEmployee(data) fails with ConflictError (HTTP 409) and stores
\* nothing whenever some record, active or soft-deleted, holds data.email at
\* the time of the call, and stores a new record only when none does.
C12_ConflictOnExistingEmail ==
  [][ Ran(exchange', "POST /")
        => LET c == FirstCall(exchange')
           IN  IF Holds(employees, c.data.email)
                 THEN /\ ThrewNamed(c, "ConflictError")
                      /\ exchange'.response.statusCode = 409
                      /\ employees' = employees
                 ELSE /\ ~IsThrown(c)
                      /\ DOMAIN employees' # DOMAIN employees ]_vars

\* the part of C12 that holds: an active holder of the email gives
\* ConflictError (409) and nothing is stored; a new record is stored only
\* when no record holds the email
C12_ConflictOnActiveEmail ==
  [][ Ran(exchange', "POST /")
        => LET c == FirstCall(exchange')
           IN  /\ findByEmail(employees, c.data.email, FALSE) # NoRow
                    => /\ ThrewNamed(c, "ConflictError")
                       /\ exchange'.response.statusCode = 409
                       /\ employees' = employees
               /\ DOMAIN employees' # DOMAIN employees
                    => ~Holds(employees, c.data.email) ]_vars

\* createEmployee called with the email of a soft-deleted record: the insert
\* is rejected by the unique constraint and the request is answered with 500
C12_SoftDeletedHolder ==
  /\ Ran(exchange, "POST /")
  /\ ThrewNamed(FirstCall(exchange), "Error")
  /\ exchange.response.statusCode = 500
  /\ \E i \in DOMAIN employees :
       /\ employees[i].email = FirstCall(exchange).data.email
       /\ employees[i].deleted_at # Null

\* C13: in every state reached by any interleaving of createEmployee,
\* updateEmployee, deleteEmployee, restoreEmployee and forceDeleteEmployee
\* calls, no two stored records (active or soft-deleted) have the same email.
C13_UniqueEmails ==
  \A i, j \in DOMAIN employees : employees[i].email = employees[j].email => i = j

\* two calls that both passed their email check went on to write the same
\* email: a createEmployee and an updateEmployee, the first stored, the other
\* rejected by the table
C13_Witness ==
  \E k, l \in Clients :
    /\ calls[k].op = "createEmployee"
    /\ calls[l].op = "updateEmployee"
    /\ calls[k].data.email = calls[l].data.email
    /\ ThrewNamed(calls[k], "Error") \/ ThrewNamed(calls[l], "Error")
    /\ Cardinality(DOMAIN employees) = 2

SoftDeleted(table) == { i \in DOMAIN table : table[i].deleted_at # Null }

\* the columns other than deleted_at and updated_at
KeptColumns == {"name", "email", "job_title", "country", "gross_salary_cents", "created_at"}

SameRecord(row, other) == \A col \in KeptColumns : row[col] = other[col]

Without(table, i) == [j \in DOMAIN table \ {i} |-> table[j]]

Outcome(call, table, next, time) == RunCall(call, table, next, time).call

\* no read or update of the service finds the soft-deleted records of the
\* table, and getDeletedEmployees returns them
Hidden(table, next, time) ==
  \A i \in SoftDeleted(table) :
    /\ ThrewNamed(Outcome(getEmployeeById(i, FALSE), table, next, time), "NotFoundError")
    /\ ThrewNamed(Outcome(getEmployeeSalaryDetails(i), table, next, time), "NotFoundError")
    /\ \A data \in UpdateData \cup { NoData } :
         LET s == RunCall(updateEmployee(i, data), table, next, time)
         IN  ThrewNamed(s.call, "NotFoundError") /\ s.table = table
    /\ \A options \in { NoData, [page |-> 2, limit |-> 1], [country |-> table[i].country] } :
         LET page == Outcome(getAllEmployees(options), table, next, time).outcome.returned
         IN  /\ \A k \in DOMAIN page.employees : page.employees[k].id # i
             /\ page.total = countAll(Without(table, i), options)
    /\ \A options \in { NoData, [country |-> table[i].country] } :
         Outcome(getSalaryMetrics(options), table, next, time).outcome.returned
           = Outcome(getSalaryMetrics(options), Without(table, i), next, time).outcome.returned
    /\ rowToEmployee(i, table[i])
         \in Outcome(getDeletedEmployees, table, next, time).outcome.returned.deleted

\* the step handled the request of the route for id i and the service call
\* returned true
Succeeded(x, route, i) ==
  /\ Ran(x, route)
  /\ parseInt(x.request.params.id) = i
  /\ ~IsThrown(FirstCall(x))
  /\ FirstCall(x).outcome.returned.boolean

\* C14 as stated: a soft-deleted employee is hidden from getEmployeeById,
\* getAllEmployees, getEmployeeSalaryDetails, updateEmployee and the salary
\* metrics and returned by getDeletedEmployees, and its record is retained,
\* unchanged apart from deleted_at and updated_at, until restoreEmployee(id)
\* succeeds.
C14_RetainedUntilRestore ==
  [][ /\ Hidden(employees', nextId', now')
      /\ \A i \in SoftDeleted(employees) :
           \/ Succeeded(exchange', "POST /:id/restore", i)
           \/ /\ i \in SoftDeleted(employees')
              /\ SameRecord(employees[i], employees'[i])
              /\ employees'[i].deleted_at = employees[i].deleted_at ]_vars

\* C14, amended: the record is retained until restoreEmployee(id) or
\* forceDeleteEmployee(id) succeeds; a restore leaves it unchanged apart from
\* deleted_at and updated_at, a force delete removes it.
C14_RetainedUntilRestoreOrForceDelete ==
  [][ /\ Hidden(employees', nextId', now')
      /\ \A i \in SoftDeleted(employees) :
           \/ /\ Succeeded(exchange', "POST /:id/restore", i)
              /\ i \in DOMAIN employees' \ SoftDeleted(employees')
              /\ SameRecord(employees[i], employees'[i])
           \/ /\ Succeeded(exchange', "DELETE /:id/force", i)
              /\ i \notin DOMAIN employees'
           \/ /\ i \in SoftDeleted(employees')
              /\ SameRecord(employees[i], employees'[i])
              /\ employees'[i].deleted_at = employees[i].deleted_at ]_vars

\* an employee was soft-deleted, another request (an update of it) was
\* answered with 404, and the record is still there
C14_Witness ==
  /\ Ran(exchange, "PUT /:id")
  /\ parseInt(exchange.request.params.id) \in SoftDeleted(employees)
  /\ exchange.request.body # NoData
  /\ exchange.response.statusCode = 404

Active(table) == DOMAIN table \ SoftDeleted(table)

\* the routes of getEmployeeById, updateEmployee, deleteEmployee and
\* getEmployeeSalaryDetails
ActiveOnlyRoutes == {"GET /:id", "PUT /:id", "DELETE /:id", "GET /:id/salary"}

NotFoundMessage(id) == "Employee with id " \o ToString(id) \o " not found"

\* C15: getEmployeeById, updateEmployee, deleteEmployee and
\* getEmployeeSalaryDetails, called with an id that no active record has, fail
\* with NotFoundError, answered with HTTP 404 and the message 'Employee with
\* id <id> not found', and leave every stored record unchanged.
C15_NotFoundLeavesRecords ==
  [][ \A route \in ActiveOnlyRoutes :
        (Ran(exchange', route) /\ parseInt(exchange'.request.params.id) \notin Active(employees))
          => LET c == FirstCall(exchange')
                 id == parseInt(exchange'.request.params.id)
             IN  /\ c.id = id
                 /\ Len(exchange'.calls) = 1
                 /\ ThrewNamed(c, "NotFoundError")
                 /\ c.outcome.thrown.statusCode = 404
                 /\ c.outcome.thrown.message = NotFoundMessage(id)
                 /\ exchange'.response.statusCode = 404
                 /\ exchange'.response.message = NotFoundMessage(id)
                 /\ employees' = employees
                 /\ nextId' = nextId ]_vars

\* a delete of an id that was never stored, while records are stored, was
\* answered with 404
C15_Witness ==
  /\ Ran(exchange, "DELETE /:id")
  /\ parseInt(exchange.request.params.id) \notin DOMAIN employees
  /\ exchange.response.statusCode = 404
  /\ employees # << >>

\* the id and the email of an update request that reached the controller
UpdatedId(x) == parseInt(x.request.params.id)

\* a record other than id, active or soft-deleted, holds the email
HeldByOther(table, email, id) == \E j \in DOMAIN table \ {id} : table[j].email = email

\* C16: updateEmployee(id, data) with data.email different from the
\* employee's current email fails with ConflictError (HTTP 409) and leaves the
\* employee unchanged whenever a record other than id holds data.email;
\* updating to the employee's own current email never raises a conflict.
C16_UpdateEmailConflict ==
  [][ (/\ Ran(exchange', "PUT /:id")
       /\ UpdatedId(exchange') \in Active(employees)
       /\ "email" \in DOMAIN FirstCall(exchange').data)
        => LET c == FirstCall(exchange')
               id == UpdatedId(exchange')
           IN  IF c.data.email = employees[id].email
                 THEN /\ ~IsThrown(c)
                      /\ exchange'.response.statusCode = 200
                      /\ employees'[id].email = employees[id].email
               ELSE IF HeldByOther(employees, c.data.email, id)
                 THEN /\ ThrewNamed(c, "ConflictError")
                      /\ c.outcome.thrown.statusCode = 409
                      /\ exchange'.response.statusCode = 409
                      /\ employees' = employees
               ELSE /\ ~IsThrown(c)
                    /\ employees'[id].email = c.data.email ]_vars

\* an update to the email of a soft-deleted other record was answered with 409
C16_Witness ==
  /\ Ran(exchange, "PUT /:id")
  /\ exchange.response.statusCode = 409
  /\ \E j \in SoftDeleted(employees) :
       /\ j # UpdatedId(exchange)
       /\ employees[j].email = FirstCall(exchange).data.email

\* the fields of an employee that a delete followed by a restore gives back
RoundTripFields == {"name", "email", "jobTitle", "country", "grossSalaryCents"}

SameEmployee(employee, other) == \A field \in RoundTripFields : employee[field] = other[field]

\* C17: restoreEmployee(id) returns true exactly when a soft-deleted record
\* with that id exists; it then clears deleted_at, and getEmployeeById(id)
\* returns the employee with the name, email, jobTitle, country and
\* grossSalaryCents it had before the delete (no step changes these columns of
\* a record that is or becomes soft-deleted); otherwise it returns false,
\* answered with HTTP 404, and changes nothing.
C17_RestoreRoundTrip ==
  [][ /\ \A i \in DOMAIN employees \cap DOMAIN employees' :
           i \in SoftDeleted(employees) \cup SoftDeleted(employees')
             => SameRecord(employees[i], employees'[i])
      /\ Ran(exchange', "POST /:id/restore")
           => LET id == parseInt(exchange'.request.params.id)
                  c == FirstCall(exchange')
              IN  /\ ~IsThrown(c)
                  /\ c.outcome.returned.boolean = (id \in SoftDeleted(employees))
                  /\ IF id \in SoftDeleted(employees)
                       THEN /\ employees' = [employees EXCEPT ![id].deleted_at = Null,
                                                              ![id].updated_at = now]
                            /\ LET found == Outcome(getEmployeeById(id, FALSE),
                                                    employees', nextId', now')
                               IN  /\ ~IsThrown(found)
                                   /\ found.outcome.returned.employee.id = id
                                   /\ SameEmployee(found.outcome.returned.employee,
                                                   rowToEmployee(id, employees[id]))
                            /\ exchange'.response.statusCode = 200
                            /\ SameEmployee(exchange'.response.data.employee,
                                            rowToEmployee(id, employees[id]))
                       ELSE /\ employees' = employees
                            /\ exchange'.response.statusCode = 404 ]_vars

\* a soft-deleted employee was restored and is active again
C17_Witness ==
  /\ Ran(exchange, "POST /:id/restore")
  /\ exchange.response.statusCode = 200
  /\ parseInt(exchange.request.params.id) \in Active(employees)

\* the ids that were given out and whose record is gone
Removed(table, next) == (FirstId .. next - 1) \ DOMAIN table

\* neither getEmployeeById(id, includeDeleted = true) nor restoreEmployee(id)
\* nor getDeletedEmployees finds a removed id
Gone(table, next, time) ==
  \A i \in Removed(table, next) :
    /\ ThrewNamed(Outcome(getEmployeeById(i, TRUE), table, next, time), "NotFoundError")
    /\ LET s == RunCall(restoreEmployee(i), table, next, time)
       IN  ~s.call.outcome.returned.boolean /\ s.table = table
    /\ \A e \in Outcome(getDeletedEmployees, table, next, time).outcome.returned.deleted :
         e.id # i

\* C18: forceDeleteEmployee(id) removes the record with that id, active or
\* soft-deleted, for good: afterwards getEmployeeById(id, true),
\* restoreEmployee(id) and getDeletedEmployees never find it and no step
\* brings the id back; when no record has the id it fails with NotFoundError
\* and changes nothing.
C18_ForceDeleteIsPermanent ==
  [][ /\ Gone(employees', nextId', now')
      /\ Removed(employees, nextId) \subseteq Removed(employees', nextId')
      /\ Ran(exchange', "DELETE /:id/force")
           => LET id == parseInt(exchange'.request.params.id)
                  c == FirstCall(exchange')
              IN  IF id \in DOMAIN employees
                    THEN /\ ~IsThrown(c)
                         /\ c.outcome.returned.boolean
                         /\ employees' = Without(employees, id)
                         /\ id \in Removed(employees', nextId')
                         /\ exchange'.response.statusCode = 204
                    ELSE /\ ThrewNamed(c, "NotFoundError")
                         /\ exchange'.response.statusCode = 404
                         /\ employees' = employees ]_vars

\* an employee was force-deleted (204) while an employee created after it is
\* stored
C18_Witness ==
  /\ Ran(exchange, "DELETE /:id/force")
  /\ exchange.response.statusCode = 204
  /\ parseInt(exchange.request.params.id) \in Removed(employees, nextId)
  /\ \E i \in DOMAIN employees : i > parseInt(exchange.request.params.id)

\* the exchange of the request just handled, if any
Exchanged(x) == "request" \in DOMAIN x

\* a request that failed its schema is answered with 400 'Validation failed'
\* without the controller or the service, one that passed reaches the
\* controller once
Checked(x) ==
  IF x.valid
    THEN x.controllerRuns = 1
    ELSE /\ x.controllerRuns = 0
         /\ x.calls = << >>
         /\ x.response.statusCode = 400
         /\ x.response.message = "Validation failed"

\* C19: on every employee route the request's body, params and query are
\* validated against a Zod schema before the controller runs: a request that
\* fails is answered with HTTP 400 'Validation failed' and never reaches the
\* controller or the service; one that passes reaches the controller exactly
\* once.
C19_ValidatedOnEveryRoute ==
  Exchanged(exchange) => exchange.schema # "none" /\ Checked(exchange)

\* C19, on the routes that have a validate handler: the request is checked as
\* stated, and a rejected request changes nothing
C19_ValidatedWhereDeclared ==
  [][ (Exchanged(exchange') /\ exchange'.schema # "none")
        => /\ Checked(exchange')
           /\ ~exchange'.valid => employees' = employees /\ nextId' = nextId ]_vars

\* GET /salary-metrics with a country that no schema accepts reached the
\* controller and the service
C19_UnvalidatedQuery ==
  /\ Exchanged(exchange)
  /\ exchange.request.route = "GET /salary-metrics"
  /\ "country" \in DOMAIN exchange.request.query
  /\ exchange.request.query.country \notin COUNTRY_CODES
  /\ exchange.controllerRuns = 1
  /\ Len(exchange.calls) = 1
  /\ exchange.response.statusCode = 200

\* what the README and the claim ask of a create body
SalaryInDocumentedRange(v) ==
  /\ v.type = "number"
  /\ ~v.fraction
  /\ ~v.negative
  /\ BigLeq(BigOfInt(100000), v.magnitude)
  /\ BigLeq(v.magnitude, Big(0, 100000, 0))

DocumentedOk(body) ==
  /\ EmployeeFields \subseteq DOMAIN body
  /\ Len(body.name) \in 2 .. 100
  /\ Len(body.jobTitle) \in 2 .. 100
  /\ isEmail(body.email)
  /\ body.country \in COUNTRY_CODES
  /\ SalaryInDocumentedRange(body.grossSalaryCents)

Posted(x) == Exchanged(x) /\ x.request.route = "POST /"

\* C20: creating an employee is accepted only when name and jobTitle have
\* 2-100 characters, email is a valid address, country is one of US, UK, IN,
\* CA and the gross salary is an integer between 100000 and 100000000000
\* cents; any other input is rejected with HTTP 400 and nothing is stored.
C20_CreateWithinDocumentedBounds ==
  [][ (Posted(exchange') /\ ~DocumentedOk(exchange'.request.body))
        => /\ exchange'.response.statusCode = 400
           /\ employees' = employees ]_vars

\* C20 with the limits of the schema, 0 and 1000000000000 cents: any other
\* input is rejected with HTTP 400 and nothing is stored
C20_CreateWithinSchemaBounds ==
  [][ (/\ Posted(exchange')
       /\ LET body == exchange'.request.body
          IN  ~(/\ DocumentedOk([body EXCEPT !.grossSalaryCents = Num(100000)])
                /\ SalaryOk(body.grossSalaryCents)
                /\ EmailLength(body.email) <= 255))
        => /\ exchange'.response.statusCode = 400
           /\ exchange'.response.message = "Validation failed"
           /\ exchange'.controllerRuns = 0
           /\ employees' = employees ]_vars

\* a salary below the documented minimum, or above the documented maximum,
\* was stored
C20_StoredOutsideDocumentedRange ==
  /\ Posted(exchange)
  /\ exchange.response.statusCode = 201
  /\ \E i \in DOMAIN employees :
       \/ BigLess(employees[i].gross_salary_cents, BigOfInt(100000))
       \/ BigLess(Big(0, 100000, 0), employees[i].gross_salary_cents)

\* an error was handed to errorHandler
ErrorHandled == "thrown" \in DOMAIN exchange

GenericMessage == "Internal server error"

\* C21: errorHandler answers an AppError with that error's statusCode and
\* message, and any other thrown value with 500 and the generic message,
\* except in development, where the message is the error's own.
C21_ErrorHandlerContract ==
  ErrorHandled =>
    LET err == exchange.thrown
        res == exchange.response
    IN  IF err.isAppError
          THEN res.statusCode = err.statusCode /\ res.message = err.message
          ELSE /\ res.statusCode = 500
               /\ res.message = IF NODE_ENV = "development" THEN err.message
                                ELSE GenericMessage

\* C21, as the code has it: a value whose name is 'AppError' or
\* 'NotFoundError' is answered like an AppError, with 500 when it carries no
\* statusCode; every other value as the claim says.
C21_NamedLikeAppError ==
  ErrorHandled =>
    LET err == exchange.thrown
        res == exchange.response
    IN  IF err.isAppError \/ err.name \in { "AppError", "NotFoundError" }
          THEN /\ res.statusCode = IF err.statusCode = 0 THEN 500 ELSE err.statusCode
               /\ res.message = err.message
          ELSE /\ res.statusCode = 500
               /\ res.message = IF NODE_ENV = "development" THEN err.message
                                ELSE GenericMessage

\* C21: in production the message of a value that is no AppError was sent
C21_ExposedInProduction ==
  /\ ErrorHandled
  /\ NODE_ENV = "production"
  /\ ~exchange.thrown.isAppError
  /\ exchange.response.message = exchange.thrown.message
  /\ exchange.response.message # GenericMessage

\* GET /salary-metrics was answered with the metrics
MetricsAnswered ==
  /\ Exchanged(exchange)
  /\ exchange.request.route = "GET /salary-metrics"
  /\ exchange.response.statusCode = 200

\* m reports the salaries of the employees ids: their number, the least and
\* the greatest salary, and the integer nearest to their mean, the upper one
\* of two that are equally near
ReportsGroup(m, ids) ==
  LET n == Cardinality(ids)
      sum == BigSum(employees, ids)
      avg == m.avgSalaryCents
  IN  /\ n > 0
      /\ m.employeeCount = n
      /\ BigLeq(BigMul(avg, 2 * n), BigAdd(BigMul(sum, 2), BigOfInt(n)))
      /\ BigLess(BigMul(sum, 2), BigAdd(BigMul(avg, 2 * n), BigOfInt(n)))
      /\ \E i \in ids : employees[i].gross_salary_cents = m.minSalaryCents
      /\ \A i \in ids : BigLeq(m.minSalaryCents, employees[i].gross_salary_cents)
      /\ \E i \in ids : employees[i].gross_salary_cents = m.maxSalaryCents
      /\ \A i \in ids : BigLeq(employees[i].gross_salary_cents, m.maxSalaryCents)
      /\ BigLeq(m.minSalaryCents, avg)
      /\ BigLeq(avg, m.maxSalaryCents)

\* C22: for each group (country, or job title) of active employees the
\* metrics give avgSalaryCents as the mean of the group's grossSalaryCents
\* rounded to the nearest integer, halves upwards, employeeCount as the number
\* of active employees of the group, and minSalaryCents <= avgSalaryCents <=
\* maxSalaryCents.
C22_MetricsOfActiveGroups ==
  MetricsAnswered =>
    LET query == exchange.request.query
        data == exchange.response.data
        wanted == { i \in Active(employees) :
                      "country" \in DOMAIN query => employees[i].country = query.country }
    IN  /\ { m.country : m \in data.byCountry } = { employees[i].country : i \in wanted }
        /\ \A m \in data.byCountry :
             ReportsGroup(m, { i \in Active(employees) : employees[i].country = m.country })
        /\ { m.jobTitle : m \in data.byJobTitle } = { employees[i].job_title : i \in Active(employees) }
        /\ \A m \in data.byJobTitle :
             ReportsGroup(m, { i \in Active(employees) : employees[i].job_title = m.jobTitle })

\* C22: metrics were given, with a soft-deleted employee in the table, for a
\* country with two active employees whose mean is no integer and was
\* rounded upwards to a value beyond 32 bits
C22_Witness ==
  /\ MetricsAnswered
  /\ \E i \in DOMAIN employees : employees[i].deleted_at # Null
  /\ \E m \in exchange.response.data.byCountry :
       LET ids == { i \in Active(employees) : employees[i].country = m.country }
       IN  /\ m.employeeCount = 2
           /\ BigLess(BigSum(employees, ids), BigMul(m.avgSalaryCents, 2))
           /\ BigLess(BigOfInt(2000000000), m.avgSalaryCents)

\* GET / was answered with a page of employees
PageAnswered ==
  /\ Exchanged(exchange)
  /\ exchange.request.route = "GET /"
  /\ exchange.response.statusCode = 200

\* the number a query gives for page or limit: the default when it gives none
\* or 0
Asked(query, key, default) ==
  IF key \in DOMAIN query /\ parseInt(query[key]) # 0 THEN parseInt(query[key])
  ELSE default

\* the active employees that match the filters of the query
Wanted(query) ==
  { i \in Active(employees) :
      /\ "country" \in DOMAIN query => employees[i].country = query.country
      /\ "jobTitle" \in DOMAIN query => employees[i].job_title = query.jobTitle }

\* employee e can stand at place p (from 1) when ids are put in descending
\* order of creation time
StandsAt(e, p, ids) ==
  /\ e.id \in ids
  /\ Cardinality({ j \in ids : employees[j].created_at > e.createdAt }) <= p - 1
  /\ Cardinality({ j \in ids : employees[j].created_at >= e.createdAt }) >= p

\* C23: getAllEmployees(options) returns at most limit employees, all active
\* and matching the filters, taken from offset (page - 1) * limit in
\* descending creation order, with total = the number of active employees
\* matching the filters and totalPages = ceil(total / limit); page defaults
\* to 1 and limit to 10, and limit never exceeds 100 on the HTTP path.
C23_PageOfActiveEmployees ==
  PageAnswered =>
    LET query == exchange.request.query
        page == Asked(query, "page", 1)
        limit == Asked(query, "limit", 10)
        wanted == Wanted(query)
        total == Cardinality(wanted)
        offset == (page - 1) * limit
        r == exchange.response.data
    IN  /\ r.page = page
        /\ r.limit = limit
        /\ limit <= 100
        /\ r.total = total
        /\ r.totalPages * limit >= total
        /\ (r.totalPages - 1) * limit < total
        /\ Len(r.employees) = Max(0, Min(limit, total - offset))
        /\ \A k \in DOMAIN r.employees :
             /\ StandsAt(r.employees[k], offset + k, wanted)
             /\ r.employees[k] = rowToEmployee(r.employees[k].id, employees[r.employees[k].id])
             /\ \A l \in DOMAIN r.employees : l # k => r.employees[l].id # r.employees[k].id

\* C23: the second page of one employee was given while three active
\* employees, created at different times, and none soft-deleted matched
C23_Witness ==
  /\ PageAnswered
  /\ exchange.request.query = [page |-> "2", limit |-> "1"]
  /\ exchange.response.data.total = 3
  /\ exchange.response.data.totalPages = 3
  /\ Len(exchange.response.data.employees) = 1
  /\ \E i \in Active(employees) :
       employees[i].created_at > exchange.response.data.employees[1].createdAt
  /\ \E i \in Active(employees) :
       employees[i].created_at < exchange.response.data.employees[1].createdAt

\* C23: a page was given while a soft-deleted employee and one of another
\* country were left out by ?country=US
C23_FilteredWitness ==
  /\ PageAnswered
  /\ exchange.request.query = [country |-> "US"]
  /\ exchange.response.data.total = 1
  /\ SoftDeleted(employees) # {}
  /\ \E i \in Active(employees) : employees[i].country # "US"

\* the createEmployee calls of k and l, with the same email, are both past
\* their findByEmail check: k is about to insert, l is about to insert or has
\* inserted and not yet returned
Racing(k, l) ==
  /\ k # l
  /\ calls[k].op = "createEmployee" /\ calls[l].op = "createEmployee"
  /\ calls[k].data.email = calls[l].data.email
  /\ calls[k].pc = "insert"
  /\ calls[l].pc \in { "insert", "findById" }

\* the call of k is the first of the two to insert, and no row holds the email
InsertsFirst(k, l) ==
  Racing(k, l) /\ calls[l].pc = "insert" /\ ~Holds(employees, calls[k].data.email)

\* the call of k inserts after l has stored its record, which is active
InsertsSecond(k, l) ==
  /\ Racing(k, l) /\ calls[l].pc = "findById"
  /\ employees[calls[l].id].deleted_at = Null
  /\ employees[calls[l].id].email = calls[k].data.email

\* the insert of k has run
Inserted(k) == calls[k].pc = "insert" /\ calls'[k] # calls[k]

\* the insert of k stored a record
Stored(k) ==
  /\ calls'[k].pc = "findById"
  /\ DOMAIN employees' = DOMAIN employees \cup { calls'[k].id }
  /\ calls'[k].id \notin DOMAIN employees
  /\ employees'[calls'[k].id].email = calls[k].data.email

\* C24: when two createEmployee calls with the same email run concurrently,
\* exactly one of them stores a record and the other fails with ConflictError
\* (HTTP 409), never with a different error.
C24_LoserGetsConflictError ==
  [][ \A k, l \in Clients :
        /\ (InsertsFirst(k, l) /\ Inserted(k)) => Stored(k)
        /\ (InsertsSecond(k, l) /\ Inserted(k)) =>
             /\ ThrewNamed(calls'[k], "ConflictError")
             /\ employees' = employees ]_vars

\* C24, as the code has it: exactly one of the two stores a record, and the
\* other fails with the error of the database's unique constraint.
C24_LoserGetsConstraintError ==
  [][ \A k, l \in Clients :
        /\ (InsertsFirst(k, l) /\ Inserted(k)) => Stored(k)
        /\ (InsertsSecond(k, l) /\ Inserted(k)) =>
             /\ IsThrown(calls'[k])
             /\ calls'[k].outcome.thrown = UniqueConstraintError
             /\ errorHandler(calls'[k].outcome.thrown, NODE_ENV).statusCode = 500
             /\ employees' = employees ]_vars

\* C24: of two concurrent createEmployee calls with the same email one has
\* stored its record and the other has failed at its insert
C24_RaceLost ==
  \E k, l \in Clients :
    /\ k # l
    /\ calls[k].op = "createEmployee" /\ calls[l].op = "createEmployee"
    /\ calls[k].data.email = calls[l].data.email
    /\ calls[l].pc = "findById"
    /\ employees[calls[l].id].deleted_at = Null
    /\ IsThrown(calls[k])
    /\ ~ThrewNamed(calls[k], "ConflictError")

\* the columns that an update with the fields of data may change
WrittenColumns(data) == { Column(f) : f \in DOMAIN data \cap EmployeeFields } \cup { "updated_at" }

\* C25: updateEmployee(id, data) changes only the fields present in data
\* (plus updatedAt) of employee id: every field omitted from data keeps its
\* previous value, deleted_at is untouched, and every other employee record
\* is left unchanged.
C25_UpdateChangesOnlyGivenFields ==
  [][ Ran(exchange', "PUT /:id") =>
        LET id == UpdatedId(exchange')
            data == exchange'.request.body
        IN  /\ DOMAIN employees' = DOMAIN employees
            /\ \A j \in DOMAIN employees \ { id } : employees'[j] = employees[j]
            /\ id \in DOMAIN employees =>
                 /\ \A col \in DOMAIN employees[id] \ WrittenColumns(data) :
                      employees'[id][col] = employees[id][col]
                 /\ employees'[id].deleted_at = employees[id].deleted_at ]_vars

\* C25: an update with name and grossSalaryCents only was stored, later than
\* the employee was created, beside another employee; name and salary are
\* the new ones and the email is the one the employee was created with
C25_Witness ==
  /\ Ran(exchange, "PUT /:id")
  /\ exchange.response.statusCode = 200
  /\ DOMAIN exchange.request.body = { "name", "grossSalaryCents" }
  /\ LET id == UpdatedId(exchange)
     IN  /\ id \in DOMAIN employees
         /\ DOMAIN employees # { id }
         /\ employees[id].name = exchange.request.body.name
         /\ employees[id].gross_salary_cents = exchange.request.body.grossSalaryCents.magnitude
         /\ employees[id].email \in { Ann.email, Bob.email }
         /\ employees[id].updated_at > employees[id].created_at
         /\ employees[id].updated_at = now

\* the step is a call of the function of config/database
Called(name) ==
  /\ result'.call = name
  /\ <<dbInstance, instances, closing, result>>' # <<dbInstance, instances, closing, result>>

\* C27: initDb creates the instance on its first call and returns that same
\* instance on every later call, even with a different custom config, until
\* closeConnection; getDb returns the current instance after initDb or setDb
\* and throws 'Database not initialized. Call initDb() first.' whenever no
\* instance is set.
C27_DatabaseSingleton ==
  [][ /\ Called("initDb") =>
           IF dbInstance # 0
             THEN /\ result'.returned = dbInstance
                  /\ dbInstance' = dbInstance
                  /\ instances' = instances
             ELSE /\ result'.returned \notin DOMAIN instances
                  /\ instances' = Append(instances, [config |-> result'.config, destroys |-> 0])
                  /\ dbInstance' = result'.returned
                  /\ dbInstance' = Len(instances')
      /\ Called("setDb") => dbInstance' = result'.set /\ dbInstance' # 0
      /\ Called("getDb") =>
           /\ dbInstance = 0 <=> "thrown" \in DOMAIN result'
           /\ dbInstance = 0 => result'.thrown = "Database not initialized. Call initDb() first."
           /\ dbInstance # 0 => result'.returned = dbInstance
           /\ dbInstance' = dbInstance
           /\ instances' = instances ]_vars

\* C27: initDb with a custom config returned the instance that an earlier
\* initDb made with the default config, and it is the second instance made
C27_Witness ==
  /\ result.call = "initDb"
  /\ result.config = "customConfig"
  /\ result.returned = dbInstance
  /\ dbInstance = 2
  /\ instances[dbInstance].config = "knexConfig"
  /\ instances[dbInstance].destroys = 0
  /\ instances[1].destroys = 1

\* C28: closeConnection destroys the current database instance and clears
\* it, and without an instance it resolves without calling destroy, so for
\* any sequence of calls each instance is destroyed at most once.
C28_DestroyedAtMostOnce ==
  \A i \in DOMAIN instances : instances[i].destroys <= 1

\* C28, call by call: closeConnection calls destroy on the current instance
\* and on no other, clears the instance when destroy has resolved, and calls
\* no destroy when no instance is set; the instance that is set while no call
\* is under way has not been destroyed.
C28_ClosesCurrentInstance ==
  [][ /\ (Called("closeConnection") /\ closing' = closing + 1) =>
           /\ dbInstance # 0
           /\ instances' = [instances EXCEPT ![dbInstance].destroys = @ + 1]
           /\ dbInstance' = dbInstance
      /\ (Called("closeConnection") /\ closing' = closing) =>
           /\ dbInstance = 0
           /\ "resolved" \in DOMAIN result'
           /\ instances' = instances
      /\ (Called("closeConnection") /\ closing' = closing - 1) =>
           /\ dbInstance' = 0
           /\ instances' = instances
      /\ (closing' = 0 /\ dbInstance' # 0) => instances'[dbInstance'].destroys = 0 ]_vars

\* C28: destroy was called twice on one instance, by two closeConnection
\* calls of which the second began before the first had cleared the instance
C28_DestroyedTwice ==
  /\ closing = 2
  /\ dbInstance # 0
  /\ instances[dbInstance].destroys = 2

\* the HTTP server has closed and the database connection has been closed
ShutDown == server = "closed" /\ dbInstance = 0 /\ instances[1].destroys > 0

\* the exit codes, and the order of closing
OrderlyExit ==
  /\ exitCode \in { -1, 0, 1 }
  /\ exitCode = 0 => ShutDown
  /\ exitCode = 1 => elapsed = ShutdownTimeout /\ ~ShutDown
  /\ \A i \in DOMAIN instances : instances[i].destroys > 0 => server = "closed"
  /\ dbInstance = 0 => server = "closed"

\* C26: after a SIGTERM or SIGINT the process eventually exits: with code 0
\* once the HTTP server has closed and then the database connection has been
\* closed, or with code 1 if that has not completed within 10 seconds; the
\* database connection is never closed before the HTTP server has finished
\* closing.
C26_GracefulShutdown ==
  /\ []OrderlyExit
  /\ (signals > 0) ~> ~Running

\* C26: the process exited with code 0 some seconds after the signal, the
\* server having waited for a connection to end
C26_Witness ==
  /\ exitCode = 0
  /\ signals = 1
  /\ elapsed > 0
  /\ ShutDown
  /\ instances[1].destroys = 1

\* C26: the process exited with code 1 while a connection kept the server
\* from closing
C26_ForcedWitness ==
  /\ exitCode = 1
  /\ server = "closing"
  /\ connections > 0
  /\ dbInstance = 1
  /\ instances[1].destroys = 0

\* the step handles a request of the route, and the controller runs
Requested(route) == now' = now /\ Ran(exchange', route)

\* C29: deleteEmployee(id) on an employee that is already soft-deleted fails
\* with NotFoundError and leaves its deleted_at timestamp and all other
\* fields unchanged.
C29_DeleteIsNotRepeatable ==
  [][ (Requested("DELETE /:id") /\ UpdatedId(exchange') \in SoftDeleted(employees)) =>
        /\ ThrewNamed(FirstCall(exchange'), "NotFoundError")
        /\ Len(exchange'.calls) = 1
        /\ exchange'.response.statusCode = 404
        /\ exchange'.response.message = NotFoundMessage(UpdatedId(exchange'))
        /\ employees' = employees ]_vars

\* C29: a DELETE of an employee that was soft-deleted at an earlier time was
\* answered with 404, and the employee's deleted_at is that earlier time
C29_Witness ==
  /\ Ran(exchange, "DELETE /:id")
  /\ exchange.response.statusCode = 404
  /\ UpdatedId(exchange) \in SoftDeleted(employees)
  /\ employees[UpdatedId(exchange)].deleted_at < now
  /\ employees[UpdatedId(exchange)].updated_at = employees[UpdatedId(exchange)].deleted_at

\* a body whose country or gross salary is given and is outside the schema:
\* another country, or a salary that is no integer number of 0 ..
\* MAX_SALARY_CENTS
OutsideSchema(body) ==
  \/ "country" \in DOMAIN body /\ body.country \notin {"US", "UK", "IN", "CA"}
  \/ /\ "grossSalaryCents" \in DOMAIN body
     /\ LET v == body.grossSalaryCents
        IN  \/ v.type # "number"
            \/ v.fraction
            \/ v.negative /\ v.magnitude # << >>
            \/ BigLess(MAX_SALARY_CENTS, v.magnitude)

\* the arguments with which getEmployeeSalaryDetails calls the calculator for
\* the row
CalculatorArguments(row) ==
  [grossSalaryCents |-> row.gross_salary_cents, country |-> CountryOrDefault(row.country)]

\* every stored employee has a country of the four and a gross salary of
\* 0 .. 1,000,000,000,000 cents, and the salary route called the calculator
\* with these
StoredWithinSchema ==
  /\ \A i \in DOMAIN employees :
       /\ employees[i].country \in {"US", "UK", "IN", "CA"}
       /\ employees[i].gross_salary_cents = BigNorm(employees[i].gross_salary_cents)
       /\ BigLeq(<< >>, employees[i].gross_salary_cents)
       /\ BigLeq(employees[i].gross_salary_cents, Big(1, 0, 0))
       /\ CalculatorArguments(employees[i]).country = employees[i].country
  /\ (Ran(exchange, "GET /:id/salary") /\ exchange.response.statusCode = 200) =>
       LET row == employees[UpdatedId(exchange)]
       IN  exchange.response.data.details =
             calculateSalaryDetailsWide(CalculatorArguments(row).grossSalaryCents,
                                        row.country)

\* C30: in every state reachable through the HTTP API every stored employee
\* has country in {US, UK, IN, CA} and an integer grossSalaryCents with
\* 0 <= grossSalaryCents <= 1,000,000,000,000, so the salary calculator is
\* never invoked through the API with a negative gross or with the 'XX'
\* sentinel; a create or update outside these bounds is refused.
C30_StoredWithinSchemaBounds ==
  /\ []StoredWithinSchema
  /\ [][ ((Ran(exchange', "POST /") \/ Ran(exchange', "PUT /:id")) =>
            ~OutsideSchema(exchange'.request.body))
         /\ ((Exchanged(exchange') /\ exchange'.request.route \in {"POST /", "PUT /:id"}
                /\ OutsideSchema(exchange'.request.body)) =>
               /\ exchange'.response.statusCode = 400
               /\ employees' = employees) ]_vars

\* C30: the salary details of an employee stored with the greatest salary of
\* the schema were given
C30_Witness ==
  /\ Ran(exchange, "GET /:id/salary")
  /\ exchange.response.statusCode = 200
  /\ employees[UpdatedId(exchange)].gross_salary_cents = MAX_SALARY_CENTS
  /\ exchange.response.data.details.grossSalaryCents = MAX_SALARY_CENTS

====
